---- MODULE Spec2Model ----
(***************************************************************************)
(* Exemplar Capture: the capture -> stitch -> overlay pipeline of the      *)
(* popup (lib/constants.js capture engine, lib/csv.js popup controller)    *)
(* and the legacy offscreen stitcher (offscreen/offscreen.js).             *)
(*                                                                         *)
(* Every await that yields to the event loop (a chrome.* callback, an      *)
(* image load, a timer) ends an action; code that runs in one microtask    *)
(* chain (a rejected promise reaching its catch handler, the continuation  *)
(* of an async function up to its next real await) is one action.          *)
(***************************************************************************)
EXTENDS Integers, Sequences, FiniteSets, TLC

(* ---------------- bounds of the model ---------------- *)
MaxRuns == 2        \* handlers and pipeline runs suspended at once; captures of Spec
MaxChunks == 4      \* measured heights reach MaxChunks full chunks plus a rest
MaxCaptures == 1    \* captures of SpecSequential, one after the other
MaxScroll == 1      \* scroll positions 0..MaxScroll of a page before capture
MaxSlices == 3      \* viewport slices handed to stitchSlices

(* ---------------- program constants ---------------- *)
MAX_CHUNK_HEIGHT == 4000
CAPTURE_WIDTH == 1440
MAX_CANVAS_HEIGHT == 16384
OVERLAY_PADDING == 16
OVERLAY_LINE_HEIGHT == 19
OVERLAY_FONT_SIZE == 13

(* The popup belongs to one window and closes when it loses focus: the    *)
(* active tab it queries is the one tab under it.                          *)
Tabs == {1}
RunIds == 1..MaxRuns

NoPending == [none |-> TRUE]
NoResult == [none |-> TRUE]

Max(a, b) == IF a >= b THEN a ELSE b
Min(a, b) == IF a <= b THEN a ELSE b
CeilDiv(a, b) == (a + b - 1) \div b

RECURSIVE SumHeights(_)
SumHeights(ps) == IF ps = <<>> THEN 0 ELSE Head(ps).height + SumHeights(Tail(ps))

(* Heights a measurement can report: k full chunks plus a rest d.          *)
(* 384 = 16384 - 4 * 4000 puts the canvas limit itself among them.         *)
Rests == {0, 1, MAX_CANVAS_HEIGHT - 4 * MAX_CHUNK_HEIGHT, MAX_CANVAS_HEIGHT - 4 * MAX_CHUNK_HEIGHT + 1}
Heights == {k * MAX_CHUNK_HEIGHT + d : k \in 0..MaxChunks, d \in Rests}
(* the height of the popup's interleaving model: a page of one chunk      *)
PopupHeights == {1}

VARIABLES
  attached,        \* attached[t]: chrome.debugger holds a session on tab t
  override,        \* override[t]: setDeviceMetricsOverride sent, not cleared
  scrollY,         \* scrollY[t]: scroll position of the page in tab t
  runs,            \* runs[r]: one proceedWithCapture invocation
  lastExit,        \* how the captureFullPage invocation that ended last left
  session,         \* popup: session (FALSE = null)
  stepCounter,     \* popup: stepCounter
  pendingCapture,  \* popup: pendingCapture
  isDuplicate,     \* popup: isDuplicate
  stitchCanvas,    \* popup: the hidden #stitch-canvas
  hcWait,          \* handleCapture continuations: 0 awaits the tab, t awaits storage
  promptWait,      \* showPageNamePrompt .then callbacks not yet run
  ui,              \* the prompt, the duplicate warning, the status line
  history,         \* storage: capture history (tabs whose URL was saved)
  save,            \* the handleSaveCapture invocation in flight
  files,           \* documents written to the persistence sink
  rows,            \* storage: manifest rows
  ended,           \* proceedWithCapture invocations that have ended
  off,             \* offscreen document: one stitchSlices call
  ov,              \* drawOverlay called on its own: input, metadata, output
  pdf,             \* generatePdf called on its own: one invocation
  call,            \* a function of naming.js or csv.js called on its own
  led              \* the popup's session ledger: storage, sink, handlers in flight

vars == <<attached, override, scrollY, runs, lastExit, session, stepCounter,
          pendingCapture, isDuplicate, stitchCanvas, hcWait, promptWait, ui,
          history, save, files, rows, ended, off, ov, pdf, call, led>>

pageVars == <<attached, override, scrollY>>
pureVars == <<off, ov, pdf, call, led>>
popupVars == <<session, stepCounter, pendingCapture, isDuplicate, stitchCanvas,
               hcWait, promptWait, ui, history, save, files, rows, ended>>

(* ---------------- captureFullPage ---------------- *)

IdleRun == [pc |-> "idle", tab |-> 0, layoutH |-> 0, cssHeight |-> 0,
            parts |-> <<>>, err |-> FALSE, chunkErr |-> FALSE, scroll0 |-> 0,
            sent |-> FALSE, detaches |-> 0, overridden |-> FALSE, j |-> 0,
            attachOk |-> FALSE]

(* The commands of captureFullPage that change nothing the model tracks,   *)
(* and the command that follows each.                                      *)
NextPc(pc) ==
  CASE pc = "pageEnable" -> "runtimeEnable"
    [] pc = "runtimeEnable" -> "viewport"
    [] pc = "viewport" -> "setOverride"
    [] pc = "sleep" -> "preScroll"

Commands == {"pageEnable", "runtimeEnable", "viewport", "setOverride",
             "preScroll", "layout", "dom", "chunk", "clear"}
InTry == Commands \cup {"sleep"}

(* dbgAttach rejected: the await is outside the try, no finally runs.      *)
afterAttachRejectInTry(run) == [run EXCEPT !.pc = "detach", !.err = TRUE]
afterAttachRejectIgnored(run) == [run EXCEPT !.pc = "pageEnable"]
afterAttachReject(run) == [run EXCEPT !.pc = "thrown", !.err = TRUE]

(* a dbgSend inside the try rejected: control goes to the finally block.   *)
afterCommandErrorNoFinally(run) == [run EXCEPT !.pc = "thrown", !.err = TRUE]
afterCommandError(run) == [run EXCEPT !.pc = "detach", !.err = TRUE]

(* Page.captureScreenshot rejected: the error leaves the loop and the try. *)
afterChunkErrorPartial(run) == [run EXCEPT !.pc = "clear"]
afterChunkError(run) == [afterCommandError(run) EXCEPT !.chunkErr = TRUE]

numChunks(cssHeight) == CeilDiv(cssHeight, MAX_CHUNK_HEIGHT)

clipHFixed(cssHeight, i) == MAX_CHUNK_HEIGHT
clipH(cssHeight, i) == Min(MAX_CHUNK_HEIGHT, cssHeight - i * MAX_CHUNK_HEIGHT)

(* the part pushed for chunk i (0-based); the PNG has the clip's size at   *)
(* scale 1, so the image's naturalHeight is the part's height.             *)
makePart(cssHeight, i) ==
  [width |-> CAPTURE_WIDTH, height |-> clipH(cssHeight, i), cssY |-> i * MAX_CHUNK_HEIGHT]

cssHeightOf(layoutH, domH) == Max(layoutH, domH)

(* ---------------- the overlay header ---------------- *)

(* lineData of drawOverlay: one block per metadata field that is present.  *)
(* md holds, per field, the number of lines its block takes (0 = absent).  *)
FieldOrder == <<"flowOrSetName", "stepOrIndex", "pageName", "loginState",
                "version", "timestamp", "urlPath">>

RECURSIVE lineCount(_, _)
lineCount(md, k) ==
  IF k = 0 THEN 0 ELSE lineCount(md, k - 1) + md[FieldOrder[k]]

separatorHeight(dpr) == Max(1, dpr)

headerHeightNoSeparator(md, dpr) ==
  lineCount(md, Len(FieldOrder)) * (OVERLAY_LINE_HEIGHT * dpr)
    + (OVERLAY_PADDING * dpr) * 2

headerHeight(md, dpr) ==
  lineCount(md, Len(FieldOrder)) * (OVERLAY_LINE_HEIGHT * dpr)
    + (OVERLAY_PADDING * dpr) * 2 + separatorHeight(dpr)

(* A canvas is its size and what was drawn on it: draws[k] = part src (0   *)
(* for a header band) was drawn with its top row at y, h rows tall.        *)
(* header is the height of the band the last drawOverlay put on top.       *)
ShiftDown(draws, d) == [k \in DOMAIN draws |-> [draws[k] EXCEPT !.y = @ + d]]

drawOverlay(canvas, md, dpr) ==
  LET hh == headerHeight(md, dpr) IN
  [width |-> canvas.width,
   height |-> canvas.height + hh,
   draws |-> <<[src |-> 0, y |-> 0, h |-> hh]>> \o ShiftDown(canvas.draws, hh),
   header |-> hh]

(* drawImageToCanvas(canvas, parts[0].dataUrl) once the image has loaded   *)
drawImageToCanvas(part) ==
  [width |-> part.width, height |-> part.height,
   draws |-> <<[src |-> 1, y |-> 0, h |-> part.height]>>, header |-> 0]

(* stitchPartsToCanvas, several parts: the canvas is sized before the      *)
(* first image loads (sizing a canvas clears it)                           *)
stitchSized(parts) ==
  [width |-> parts[1].width, height |-> SumHeights(parts), draws |-> <<>>, header |-> 0]

(* ... and image j is drawn at the running yOffset                          *)
stitchDraw(canvas, parts, j) ==
  [canvas EXCEPT !.draws = Append(@, [src |-> j, y |-> SumHeights(SubSeq(parts, 1, j - 1)),
                                      h |-> parts[j].height])]

allStitched(parts) == SumHeights(parts) <= MAX_CANVAS_HEIGHT

additionalPartsAll(parts) == IF allStitched(parts) THEN <<>> ELSE parts
additionalParts(parts) == IF allStitched(parts) THEN <<>> ELSE Tail(parts)

(* ---------------- initial state ---------------- *)

(* no handleSaveCapture in flight; of one in flight: where it is, the      *)
(* manifest length and url key it read, the artifacts it has written, the  *)
(* manifest row it built                                                   *)
IdleSave == [pc |-> "idle", n |-> 0, key |-> 0, written |-> {},
             row |-> [pngFilename |-> "", pdfFilename |-> ""]]
NoStitch == [pc |-> "none"]
NoOverlay == [pc |-> "none"]
NoPdf == [pc |-> "none"]
NoCall == [pc |-> "none"]
NoLedger == [pc |-> "none"]

(* the popup's module state as declared, an HTML canvas of the default     *)
(* size (300 x 150), no debugger session                                   *)
PopupInit ==
  /\ attached = [t \in Tabs |-> FALSE]
  /\ override = [t \in Tabs |-> FALSE]
  /\ scrollY = [t \in Tabs |-> 0]
  /\ runs = [r \in RunIds |-> IdleRun]
  /\ lastExit = "none"
  /\ session = FALSE
  /\ stepCounter = 1
  /\ pendingCapture = NoPending
  /\ isDuplicate = FALSE
  /\ stitchCanvas = [width |-> 300, height |-> 150, draws |-> <<>>, header |-> 0]
  /\ hcWait = <<>>
  /\ promptWait = 0
  /\ ui = [prompt |-> FALSE, dup |-> FALSE, status |-> [message |-> "", type |-> "none"]]
  /\ history = {}
  /\ save = IdleSave
  /\ files = 0
  /\ rows = 0
  /\ ended = 0

Init ==
  /\ PopupInit
  /\ off = NoStitch /\ ov = NoOverlay /\ pdf = NoPdf /\ call = NoCall /\ led = NoLedger

(* how an invocation of captureFullPage left: its attach was rejected, a   *)
(* chunk capture was rejected, another command was rejected, it returned   *)
ExitOf(run, ok) ==
  IF ok THEN "returned"
  ELSE IF ~run.attachOk THEN "attachFailed"
  ELSE IF run.chunkErr THEN "chunkFailed" ELSE "threw"

(* showStatus(message, type): what the status line holds.  Of the message *)
(* only the error of a failed save is kept; the timers that hide an info   *)
(* or success message are left out.                                        *)
showStatus(u, message, type) == [u EXCEPT !.status = [message |-> message, type |-> type]]

(* the catch block of proceedWithCapture *)
CatchCapture(r) ==
  /\ pendingCapture' = NoPending
  /\ ui' = showStatus(ui, "", "error")
  /\ ended' = ended + 1
  /\ UNCHANGED <<session, stepCounter, isDuplicate, hcWait, promptWait,
                 history, save, files, rows>>

SetRun(r, run) == runs' = [runs EXCEPT ![r] = run]

(* a rejection inside captureFullPage: either the finally block is next or *)
(* the error is already at the caller's catch                              *)
Thrown(r, run) ==
  IF run.pc # "thrown"
  THEN /\ SetRun(r, run)
       /\ UNCHANGED <<lastExit, session, stepCounter, pendingCapture, isDuplicate,
                      stitchCanvas, hcWait, promptWait, ui, history, save,
                      files, rows, ended>>
  ELSE /\ SetRun(r, IdleRun)
       /\ lastExit' = ExitOf(run, FALSE)
       /\ CatchCapture(r)
       /\ UNCHANGED stitchCanvas

(* ---------------- captureFullPage, step by step ---------------- *)

(* chrome.debugger.attach succeeded; it cannot while a session is attached *)
AttachOk(r) ==
  /\ UNCHANGED pureVars
  /\ runs[r].pc = "attach"
  /\ ~attached[runs[r].tab]
  /\ attached' = [attached EXCEPT ![runs[r].tab] = TRUE]
  /\ SetRun(r, [runs[r] EXCEPT !.pc = "pageEnable", !.attachOk = TRUE])
  /\ UNCHANGED <<override, scrollY, lastExit>>
  /\ UNCHANGED popupVars

(* chrome.debugger.attach failed (tab gone, DevTools open, or a session    *)
(* is already attached to the tab)                                         *)
AttachFail(r) ==
  /\ UNCHANGED pureVars
  /\ runs[r].pc = "attach"
  /\ Thrown(r, afterAttachReject(runs[r]))
  /\ UNCHANGED pageVars

(* Page.enable, Runtime.enable, Runtime.evaluate(innerHeight), sleep(300)  *)
CmdOk(r) ==
  /\ UNCHANGED pureVars
  /\ runs[r].pc \in {"pageEnable", "runtimeEnable", "viewport", "sleep"}
  /\ SetRun(r, [runs[r] EXCEPT !.pc = NextPc(@),
                               !.sent = (runs[r].pc # "sleep") \/ @])
  /\ UNCHANGED <<pageVars, lastExit>>
  /\ UNCHANGED popupVars

(* Emulation.setDeviceMetricsOverride *)
SetOverride(r) ==
  /\ UNCHANGED pureVars
  /\ runs[r].pc = "setOverride"
  /\ override' = [override EXCEPT ![runs[r].tab] = TRUE]
  /\ SetRun(r, [runs[r] EXCEPT !.pc = "sleep", !.sent = TRUE, !.overridden = TRUE])
  /\ UNCHANGED <<attached, scrollY, lastExit>>
  /\ UNCHANGED popupVars

(* the pre-scroll script ran to its end: the page is left at the top *)
PreScroll(r) ==
  /\ UNCHANGED pureVars
  /\ runs[r].pc = "preScroll"
  /\ scrollY' = [scrollY EXCEPT ![runs[r].tab] = 0]
  /\ SetRun(r, [runs[r] EXCEPT !.pc = "layout", !.sent = TRUE])
  /\ UNCHANGED <<attached, override, lastExit>>
  /\ UNCHANGED popupVars

(* the pre-scroll evaluate rejected: the script may have scrolled anywhere *)
PreScrollFail(r, YS) ==
  /\ UNCHANGED pureVars
  /\ runs[r].pc = "preScroll"
  /\ \E y \in YS : scrollY' = [scrollY EXCEPT ![runs[r].tab] = y]
  /\ Thrown(r, afterCommandError([runs[r] EXCEPT !.sent = TRUE]))
  /\ UNCHANGED <<attached, override>>

(* Page.getLayoutMetrics: ceil(contentSize.height) *)
Layout(r, HS) ==
  /\ UNCHANGED pureVars
  /\ runs[r].pc = "layout"
  /\ \E h \in HS :
       SetRun(r, [runs[r] EXCEPT !.pc = "dom", !.sent = TRUE, !.layoutH = h])
  /\ UNCHANGED <<pageVars, lastExit>>
  /\ UNCHANGED popupVars

(* getDomDimensions; cssHeight is fixed, the chunk loop is entered *)
Dom(r, HS) ==
  /\ UNCHANGED pureVars
  /\ runs[r].pc = "dom"
  /\ \E h \in HS :
       LET H == cssHeightOf(runs[r].layoutH, h) IN
       SetRun(r, [runs[r] EXCEPT !.pc = IF numChunks(H) > 0 THEN "chunk" ELSE "clear",
                                 !.sent = TRUE, !.layoutH = 0, !.cssHeight = H])
  /\ UNCHANGED <<pageVars, lastExit>>
  /\ UNCHANGED popupVars

(* Page.captureScreenshot of chunk i = parts.length *)
Chunk(r) ==
  /\ UNCHANGED pureVars
  /\ runs[r].pc = "chunk"
  /\ LET i == Len(runs[r].parts) IN
       SetRun(r, [runs[r] EXCEPT
                    !.parts = Append(@, makePart(runs[r].cssHeight, i)),
                    !.sent = TRUE,
                    !.pc = IF i + 1 < numChunks(runs[r].cssHeight) THEN "chunk" ELSE "clear"])
  /\ UNCHANGED <<pageVars, lastExit>>
  /\ UNCHANGED popupVars

ChunkFail(r) ==
  /\ UNCHANGED pureVars
  /\ runs[r].pc = "chunk"
  /\ Thrown(r, afterChunkError([runs[r] EXCEPT !.sent = TRUE]))
  /\ UNCHANGED pageVars

(* Emulation.clearDeviceMetricsOverride *)
Clear(r) ==
  /\ UNCHANGED pureVars
  /\ runs[r].pc = "clear"
  /\ override' = [override EXCEPT ![runs[r].tab] = FALSE]
  /\ SetRun(r, [runs[r] EXCEPT !.pc = "detach", !.sent = TRUE])
  /\ UNCHANGED <<attached, scrollY, lastExit>>
  /\ UNCHANGED popupVars

(* any other dbgSend rejected *)
CmdFail(r) ==
  /\ UNCHANGED pureVars
  /\ runs[r].pc \in Commands \ {"preScroll", "chunk"}
  /\ Thrown(r, afterCommandError([runs[r] EXCEPT !.sent = TRUE]))
  /\ UNCHANGED pageVars

(* ---------------- proceedWithCapture after captureFullPage ---------------- *)

(* the metadata object handed to drawOverlay; the popup's values are short *)
(* enough for one line per field at CAPTURE_WIDTH                          *)
overlayMetadata(pc) ==
  [flowOrSetName |-> 1, stepOrIndex |-> 1,
   pageName |-> IF pc.pageName THEN 1 ELSE 0,
   loginState |-> IF pc.loginState THEN 1 ELSE 0,
   version |-> IF pc.version THEN 1 ELSE 0,
   timestamp |-> 1, urlPath |-> 1]

(* steps 3 and 4 of proceedWithCapture on the stitched canvas: overlay,    *)
(* thumbnail, captureResult; a null session or pendingCapture throws       *)
(* before drawOverlay is called and the catch block discards the capture   *)
FinishCapture(r, canvas, run) ==
  /\ SetRun(r, IdleRun)
  /\ IF ~session \/ pendingCapture = NoPending
     THEN /\ stitchCanvas' = canvas
          /\ pendingCapture' = NoPending
          /\ ui' = showStatus(ui, "", "error")
     ELSE /\ stitchCanvas' = drawOverlay(canvas, overlayMetadata(pendingCapture), 1)
          /\ ui' = showStatus(ui, "", "success")
          /\ pendingCapture' = [pendingCapture EXCEPT !.captureResult =
               [pageHeight |-> run.cssHeight,
                additional |-> additionalParts(run.parts),
                parts |-> run.parts]]
  /\ ended' = ended + 1
  /\ UNCHANGED <<session, stepCounter, isDuplicate, hcWait, promptWait,
                 history, save, files, rows>>

dbgDetach(att, t) == [att EXCEPT ![t] = FALSE]

(* the finally block: chrome.debugger.detach called back.  A failed run    *)
(* rethrows into the catch of proceedWithCapture; a successful one returns *)
(* and proceedWithCapture goes on to its first image load.                 *)
Detach(r) ==
  /\ UNCHANGED pureVars
  /\ runs[r].pc = "detach"
  /\ attached' = dbgDetach(attached, runs[r].tab)
  /\ UNCHANGED <<override, scrollY>>
  /\ LET run == [runs[r] EXCEPT !.detaches = @ + 1] IN
     IF run.err
     THEN /\ lastExit' = ExitOf(run, FALSE)
          /\ SetRun(r, IdleRun)
          /\ CatchCapture(r)
          /\ UNCHANGED stitchCanvas
     ELSE /\ lastExit' = ExitOf(run, TRUE)
          /\ IF run.parts = <<>>
             THEN FinishCapture(r, stitchCanvas, run)
             ELSE /\ SetRun(r, [run EXCEPT !.pc = "load", !.j = 0])
                  /\ stitchCanvas' = IF allStitched(run.parts) /\ Len(run.parts) > 1
                                     THEN stitchSized(run.parts) ELSE stitchCanvas
                  /\ ui' = showStatus(ui, "", "info")
                  /\ UNCHANGED <<session, stepCounter, pendingCapture, isDuplicate,
                                 hcWait, promptWait, history, save, files,
                                 rows, ended>>

(* an image of stitchPartsToCanvas / drawImageToCanvas loaded *)
ImageLoaded(r) ==
  /\ UNCHANGED pureVars
  /\ runs[r].pc = "load"
  /\ UNCHANGED <<pageVars, lastExit>>
  /\ LET run == runs[r]
         parts == run.parts
     IN IF allStitched(parts) /\ Len(parts) > 1
        THEN LET canvas == stitchDraw(stitchCanvas, parts, run.j + 1) IN
             IF run.j + 1 = Len(parts)
             THEN FinishCapture(r, canvas, run)
             ELSE /\ SetRun(r, [run EXCEPT !.j = @ + 1])
                  /\ stitchCanvas' = canvas
                  /\ UNCHANGED <<session, stepCounter, pendingCapture, isDuplicate,
                                 hcWait, promptWait, ui, history, save, files,
                                 rows, ended>>
        ELSE FinishCapture(r, drawImageToCanvas(parts[1]), run)

(* img.onerror: loadImage rejected *)
ImageFail(r) ==
  /\ UNCHANGED pureVars
  /\ runs[r].pc = "load"
  /\ SetRun(r, IdleRun)
  /\ CatchCapture(r)
  /\ UNCHANGED <<pageVars, lastExit, stitchCanvas>>

(* ---------------- the popup's handlers ---------------- *)

(* handleStartSession: the setup form is submitted with a name *)
handleStartSession ==
  /\ UNCHANGED pureVars
  /\ ~session
  /\ session' = TRUE
  /\ stepCounter' = 1
  /\ rows' = 0
  /\ history' = {}
  /\ UNCHANGED <<pageVars, runs, lastExit, pendingCapture, isDuplicate, stitchCanvas,
                 hcWait, promptWait, ui, save, files, ended>>

(* continuations suspended at an await: handleCapture on storage, the      *)
(* .then of showPageNamePrompt, proceedWithCapture                          *)
InFlight == Len(hcWait) + promptWait + Cardinality({r \in RunIds : runs[r].pc # "idle"})

FreshPending(t) ==
  [tab |-> t, loginState |-> FALSE, pageName |-> FALSE, version |-> FALSE,
   captureResult |-> NoResult]

(* position in hcWait of the oldest continuation that is at a stage *)
Without(q, i) == SubSeq(q, 1, i - 1) \o SubSeq(q, i + 1, Len(q))
AwaitsTab(x) == x = 0
AwaitsStorage(x) == x # 0
FirstAwaitsTab ==
  CHOOSE i \in 1..Len(hcWait) :
    AwaitsTab(hcWait[i]) /\ \A k \in 1..(i - 1) : ~AwaitsTab(hcWait[k])
FirstAwaitsStorage ==
  CHOOSE i \in 1..Len(hcWait) :
    AwaitsStorage(hcWait[i]) /\ \A k \in 1..(i - 1) : ~AwaitsStorage(hcWait[k])

(* Capture clicked: handleCapture up to its first await (ensureFolderAccess, *)
(* then chrome.tabs.query)                                                  *)
handleCapture ==
  /\ UNCHANGED pureVars
  /\ session
  /\ InFlight < MaxRuns
  /\ hcWait' = Append(hcWait, 0)
  /\ UNCHANGED <<pageVars, runs, lastExit, session, stepCounter, pendingCapture,
                 isDuplicate, stitchCanvas, promptWait, ui, history, save, files,
                 rows, ended>>

(* the active tab t is known: pendingCapture is replaced by a fresh object *)
(* and storage is read                                                     *)
handleCaptureTab ==
  /\ UNCHANGED pureVars
  /\ \E i \in 1..Len(hcWait) : AwaitsTab(hcWait[i])
  /\ \E t \in Tabs :
       /\ pendingCapture' = FreshPending(t)
       /\ hcWait' = [hcWait EXCEPT ![FirstAwaitsTab] = t]
  /\ ui' = showStatus(ui, "", "info")
  /\ UNCHANGED <<pageVars, runs, lastExit, session, stepCounter, isDuplicate,
                 stitchCanvas, promptWait, history, save, files, rows, ended>>

(* ensureFolderAccess threw, or the tab cannot be captured (no URL, a      *)
(* browser-internal page): the catch block reports it                      *)
handleCaptureRejected ==
  /\ UNCHANGED pureVars
  /\ \E i \in 1..Len(hcWait) : AwaitsTab(hcWait[i])
  /\ hcWait' = Without(hcWait, FirstAwaitsTab)
  /\ ui' = showStatus(ui, "", "error")
  /\ UNCHANGED <<pageVars, runs, lastExit, session, stepCounter, pendingCapture,
                 isDuplicate, stitchCanvas, promptWait, history, save, files,
                 rows, ended>>

(* the synchronous part of showPageNamePrompt: it dereferences             *)
(* pendingCapture (a TypeError when null) and queues the .then callback    *)
showPageNamePrompt ==
  IF pendingCapture = NoPending
  THEN UNCHANGED <<pendingCapture, promptWait>>
  ELSE /\ pendingCapture' = [pendingCapture EXCEPT !.loginState = TRUE]
       /\ promptWait' = promptWait + 1

(* handleCapture after storage answered: the duplicate check *)
handleCaptureResume ==
  /\ UNCHANGED pureVars
  /\ \E i \in 1..Len(hcWait) : AwaitsStorage(hcWait[i])
  /\ hcWait' = Without(hcWait, FirstAwaitsStorage)
  /\ isDuplicate' = FALSE
  /\ IF hcWait[FirstAwaitsStorage] \in history
     THEN /\ ui' = [ui EXCEPT !.dup = TRUE]
          /\ UNCHANGED <<pendingCapture, promptWait>>
     ELSE /\ showPageNamePrompt
          /\ UNCHANGED ui
  /\ UNCHANGED <<pageVars, runs, lastExit, session, stepCounter, stitchCanvas,
                 history, save, files, rows, ended>>

(* the .then of showPageNamePrompt: the prompt becomes visible *)
PromptShown ==
  /\ UNCHANGED pureVars
  /\ promptWait > 0
  /\ promptWait' = promptWait - 1
  /\ ui' = IF pendingCapture = NoPending THEN ui ELSE [ui EXCEPT !.prompt = TRUE]
  /\ UNCHANGED <<pageVars, runs, lastExit, session, stepCounter, pendingCapture,
                 isDuplicate, stitchCanvas, hcWait, history, save, files, rows,
                 ended>>

(* btnDupProceed *)
DupProceed ==
  /\ UNCHANGED pureVars
  /\ session /\ ui.dup
  /\ InFlight < MaxRuns
  /\ isDuplicate' = TRUE
  /\ ui' = [ui EXCEPT !.dup = FALSE]
  /\ showPageNamePrompt
  /\ UNCHANGED <<pageVars, runs, lastExit, session, stepCounter, stitchCanvas,
                 hcWait, history, save, files, rows, ended>>

(* btnDupCancel *)
DupCancel ==
  /\ UNCHANGED pureVars
  /\ session /\ ui.dup
  /\ ui' = [ui EXCEPT !.dup = FALSE]
  /\ pendingCapture' = NoPending
  /\ UNCHANGED <<pageVars, runs, lastExit, session, stepCounter, isDuplicate,
                 stitchCanvas, hcWait, promptWait, history, save, files, rows,
                 ended>>

FreeRun == CHOOSE r \in RunIds : runs[r].pc = "idle" /\ \A q \in RunIds : runs[q].pc = "idle" => r <= q

(* handlePageNameConfirm (button click or Enter key in the name input)     *)
(* with a non-empty name, then proceedWithCapture up to dbgAttach.         *)
(* With pendingCapture null the handler throws at its first assignment.    *)
(* VS: whether the version field is filled in.                             *)
handlePageNameConfirm(VS) ==
  /\ UNCHANGED pureVars
  /\ session /\ ui.prompt
  /\ pendingCapture # NoPending
  /\ \E r \in RunIds : runs[r].pc = "idle"
  /\ \E v \in VS :
       pendingCapture' = [pendingCapture EXCEPT !.loginState = TRUE,
                                                !.pageName = TRUE, !.version = v]
  /\ ui' = showStatus([ui EXCEPT !.prompt = FALSE], "", "info")
  /\ SetRun(FreeRun, [IdleRun EXCEPT !.pc = "attach", !.tab = pendingCapture.tab,
                                     !.scroll0 = scrollY[pendingCapture.tab]])
  /\ UNCHANGED <<pageVars, lastExit, session, stepCounter, isDuplicate, stitchCanvas,
                 hcWait, promptWait, history, save, files, rows, ended>>

(* ---------------- handleSaveCapture ---------------- *)

(* the guard on its first line *)
SaveGuard == pendingCapture # NoPending /\ pendingCapture.captureResult # NoResult

saveRest == <<pageVars, runs, lastExit, session, stitchCanvas, hcWait, promptWait,
              ended>>

(* the outer catch block: the status line shows the error and the handler *)
(* returns; nothing is reset                                               *)
saveCatchRetries(sv) == [sv EXCEPT !.pc = "write"]
saveCatchGoesOn(sv) == [sv EXCEPT !.pc = "mget"]
saveCatch(sv) == IdleSave

(* the manifest row of createManifestRow: the names of the output files    *)
manifestRow == [pngFilename |-> "", pdfFilename |-> "Step.pdf"]

(* Save clicked: guard passed, generatePdf called (one invocation of       *)
(* handleSaveCapture at a time)                                            *)
handleSaveCapture ==
  /\ UNCHANGED pureVars
  /\ session
  /\ save.pc = "idle"
  /\ SaveGuard
  /\ save' = [save EXCEPT !.pc = "pdf"]
  /\ ui' = showStatus(ui, "", "info")
  /\ UNCHANGED <<saveRest, stepCounter, pendingCapture, isDuplicate, history, files, rows>>

(* generatePdf resolved; the write to the sink is started *)
SavePdfOk ==
  /\ UNCHANGED pureVars
  /\ save.pc = "pdf"
  /\ save' = [save EXCEPT !.pc = "write"]
  /\ ui' = showStatus(ui, "", "info")
  /\ UNCHANGED <<saveRest, stepCounter, pendingCapture, isDuplicate, history, files, rows>>

(* generatePdf, saveViaFSA or saveViaDownloads rejected: the catch block   *)
SaveFail ==
  /\ UNCHANGED pureVars
  /\ save.pc \in {"pdf", "write"}
  /\ save' = saveCatch(save)
  /\ ui' = showStatus(ui, IF save.pc = "pdf" THEN "PDF generation failed" ELSE "write failed",
                      "error")
  /\ UNCHANGED <<saveRest, stepCounter, pendingCapture, isDuplicate, history, files, rows>>

(* the document is in the sink; createManifestRow reads pendingCapture (a  *)
(* TypeError when it has become null), then the manifest is read           *)
SaveWriteOk ==
  /\ UNCHANGED pureVars
  /\ save.pc = "write"
  /\ files' = files + 1
  /\ IF pendingCapture = NoPending
     THEN /\ save' = saveCatch(save)
          /\ ui' = showStatus(ui, "TypeError", "error")
     ELSE /\ save' = [save EXCEPT !.pc = "mget", !.written = @ \cup {"pdf"},
                                  !.row = manifestRow]
          /\ UNCHANGED ui
  /\ UNCHANGED <<saveRest, stepCounter, pendingCapture, isDuplicate, history, rows>>

(* storage answered with the manifest rows *)
SaveManifestRead ==
  /\ UNCHANGED pureVars
  /\ save.pc = "mget"
  /\ save' = [save EXCEPT !.pc = "mset", !.n = rows]
  /\ UNCHANGED <<saveRest, ui, stepCounter, pendingCapture, isDuplicate, history, files, rows>>

(* rows.push(manifestRow) stored; page names and capture history are read *)
SaveManifestWrite ==
  /\ UNCHANGED pureVars
  /\ save.pc = "mset"
  /\ rows' = save.n + 1
  /\ save' = [save EXCEPT !.pc = "hget", !.n = 0]
  /\ UNCHANGED <<saveRest, ui, stepCounter, pendingCapture, isDuplicate, history, files>>

(* storage answered: the entries under pendingCapture.urlKey are set (a    *)
(* TypeError when pendingCapture is null) and the store is started         *)
SaveHistoryRead ==
  /\ UNCHANGED pureVars
  /\ save.pc = "hget"
  /\ IF pendingCapture = NoPending
     THEN /\ save' = saveCatch(save)
          /\ ui' = showStatus(ui, "TypeError", "error")
     ELSE /\ save' = [save EXCEPT !.pc = "hset", !.key = pendingCapture.tab]
          /\ UNCHANGED ui
  /\ UNCHANGED <<saveRest, stepCounter, pendingCapture, isDuplicate, history, files, rows>>

(* page names, capture history and last capture stored (history stands for *)
(* the three keys of that one write); stepCounter++ and saveStepCounter is *)
(* called                                                                  *)
SaveHistoryWrite ==
  /\ UNCHANGED pureVars
  /\ save.pc = "hset"
  /\ history' = history \cup {save.key}
  /\ stepCounter' = stepCounter + 1
  /\ save' = [save EXCEPT !.pc = "fin", !.key = 0]
  /\ UNCHANGED <<saveRest, ui, pendingCapture, isDuplicate, files, rows>>

(* saveStepCounter resolved: the reset at the end of the try block *)
SaveReset ==
  /\ UNCHANGED pureVars
  /\ save.pc = "fin"
  /\ pendingCapture' = NoPending
  /\ isDuplicate' = FALSE
  /\ save' = IdleSave
  /\ ui' = showStatus(ui, "", "success")
  /\ UNCHANGED <<saveRest, stepCounter, history, files, rows>>

(* ---------------- the specification ---------------- *)

(* proceedWithCapture invocations started so far *)
Started == ended + Cardinality({r \in RunIds : runs[r].pc # "idle"})

(* The popup under any interleaving of its user's events and the callbacks *)
(* of its awaits, until MaxRuns captures have been started.                *)

Next ==
  \/ handleStartSession
  \/ handleCapture
  \/ handleCaptureTab
  \/ handleCaptureRejected
  \/ handleCaptureResume
  \/ PromptShown
  \/ DupProceed
  \/ DupCancel
  \/ Started < MaxRuns /\ handlePageNameConfirm({FALSE})
  \/ \E r \in RunIds : AttachOk(r)
  \/ \E r \in RunIds : AttachFail(r)
  \/ \E r \in RunIds : CmdOk(r)
  \/ \E r \in RunIds : SetOverride(r)
  \/ \E r \in RunIds : PreScroll(r)
  \/ \E r \in RunIds : PreScrollFail(r, {0})
  \/ \E r \in RunIds : Layout(r, PopupHeights)
  \/ \E r \in RunIds : Dom(r, PopupHeights)
  \/ \E r \in RunIds : Chunk(r)
  \/ \E r \in RunIds : ChunkFail(r)
  \/ \E r \in RunIds : Clear(r)
  \/ \E r \in RunIds : CmdFail(r)
  \/ \E r \in RunIds : Detach(r)
  \/ \E r \in RunIds : ImageLoaded(r)
  \/ \E r \in RunIds : ImageFail(r)
  \/ handleSaveCapture
  \/ SavePdfOk
  \/ SaveFail
  \/ SaveWriteOk
  \/ SaveManifestRead
  \/ SaveManifestWrite
  \/ SaveHistoryRead
  \/ SaveHistoryWrite
  \/ SaveReset

Spec == Init /\ [][Next]_vars

(* The same popup with a user who starts nothing while something is in     *)
(* flight: one handler or capture pipeline at a time, over all Heights,    *)
(* MaxCaptures captures.                                                   *)
Quiet ==
  /\ \A r \in RunIds : runs[r].pc = "idle"
  /\ hcWait = <<>> /\ promptWait = 0 /\ save.pc = "idle"

(* the page in tab t is scrolled (by its user or its scripts) *)
pageScrolls(t) ==
  /\ \E y \in 0..MaxScroll : y # scrollY[t] /\ scrollY' = [scrollY EXCEPT ![t] = y]
  /\ UNCHANGED <<attached, override, runs, lastExit, pureVars>>
  /\ UNCHANGED popupVars

NextSequential ==
  \/ handleStartSession
  \/ Quiet /\ \E t \in Tabs : pageScrolls(t)
  \/ Quiet /\ ~ui.prompt /\ ~ui.dup /\ handleCapture
  \/ handleCaptureTab
  \/ handleCaptureRejected
  \/ handleCaptureResume
  \/ PromptShown
  \/ Quiet /\ DupProceed
  \/ Quiet /\ DupCancel
  \/ ended < MaxCaptures /\ handlePageNameConfirm(BOOLEAN)
  \/ \E r \in RunIds : AttachOk(r)
  \/ \E r \in RunIds : AttachFail(r)
  \/ \E r \in RunIds : CmdOk(r)
  \/ \E r \in RunIds : SetOverride(r)
  \/ \E r \in RunIds : PreScroll(r)
  \/ \E r \in RunIds : PreScrollFail(r, 0..MaxScroll)
  \/ \E r \in RunIds : Layout(r, Heights)
  \/ \E r \in RunIds : Dom(r, Heights)
  \/ \E r \in RunIds : Chunk(r)
  \/ \E r \in RunIds : ChunkFail(r)
  \/ \E r \in RunIds : Clear(r)
  \/ \E r \in RunIds : CmdFail(r)
  \/ \E r \in RunIds : Detach(r)
  \/ \E r \in RunIds : ImageLoaded(r)
  \/ \E r \in RunIds : ImageFail(r)
  \/ Quiet /\ ~ui.prompt /\ ~ui.dup /\ handleSaveCapture
  \/ SavePdfOk
  \/ SaveFail
  \/ SaveWriteOk
  \/ SaveManifestRead
  \/ SaveManifestWrite
  \/ SaveHistoryRead
  \/ SaveHistoryWrite
  \/ SaveReset

SpecSequential == Init /\ [][NextSequential]_vars

(* ---------------- offscreen document: stitchSlices ---------------- *)

RoundDiv(n, d) == (2 * n + d) \div (2 * d)       \* Math.round(n / d), n >= 0

(* ratio = slicePixelWidth / fullWidth as a fraction <<num, den>> *)
Ratios == {<<1, 1>>, <<3, 2>>, <<2, 1>>}
ViewportHeights == {1000, 5000}

(* a call stitchSlices(slices, fullWidth, fullHeight, viewportHeight): n   *)
(* viewport slices taken at y = 0, vh, 2 vh, ..., each image vh * ratio    *)
(* pixels tall, of a page whose last viewport is full or partly filled     *)
StitchCalls ==
  UNION {{[pc |-> "first", n |-> n, vh |-> vh, fullHeight |-> (n - 1) * vh + d,
           ratio |-> q, canvasHeight |-> 150, draws |-> <<>>] :
            n \in 1..MaxSlices, d \in {1, vh \div 2, vh}, q \in Ratios} :
         vh \in ViewportHeights}

sliceY(o, i) == i * o.vh
slicePixelHeight(o) == (o.vh * o.ratio[1]) \div o.ratio[2]

canvasHeightOf(o) ==
  Min(CeilDiv(o.fullHeight * o.ratio[1], o.ratio[2]), MAX_CANVAS_HEIGHT)

yOffsetOf(o, i) == RoundDiv(sliceY(o, i) * o.ratio[1], o.ratio[2])

(* the body of the loop for slice i (0-based): what drawImage is called    *)
(* with: source row sy, destination row dy, h rows                         *)
drawSlice(o, i) ==
  LET yOffset == yOffsetOf(o, i)
      remainingHeight == o.canvasHeight - yOffset
  IN IF i = o.n - 1 /\ remainingHeight < slicePixelHeight(o)
     THEN [i |-> i, sy |-> slicePixelHeight(o) - remainingHeight, dy |-> yOffset,
           h |-> remainingHeight]
     ELSE [i |-> i, sy |-> 0, dy |-> yOffset, h |-> slicePixelHeight(o)]

(* slices[0] loaded: the canvas is sized and slice 0 drawn *)
FirstSliceLoaded ==
  /\ off.pc = "first"
  /\ LET o == [off EXCEPT !.canvasHeight = canvasHeightOf(off)] IN
       off' = [o EXCEPT !.draws = <<drawSlice(o, 0)>>,
                        !.pc = IF o.n = 1 THEN "done" ELSE "load"]
  /\ UNCHANGED <<pageVars, runs, lastExit, ov, pdf, call, led>>
  /\ UNCHANGED popupVars

(* slices[i] loaded and drawn, i = number of slices drawn so far *)
SliceLoaded ==
  /\ off.pc = "load"
  /\ LET i == Len(off.draws) IN
       off' = [off EXCEPT !.draws = Append(@, drawSlice(off, i)),
                          !.pc = IF i + 1 = off.n THEN "done" ELSE "load"]
  /\ UNCHANGED <<pageVars, runs, lastExit, ov, pdf, call, led>>
  /\ UNCHANGED popupVars

(* loadImage rejected: stitchSlices throws *)
SliceLoadFails ==
  /\ off.pc \in {"first", "load"}
  /\ off' = [off EXCEPT !.pc = "failed"]
  /\ UNCHANGED <<pageVars, runs, lastExit, ov, pdf, call, led>>
  /\ UNCHANGED popupVars

InitStitch ==
  /\ PopupInit
  /\ off \in StitchCalls /\ ov = NoOverlay /\ pdf = NoPdf /\ call = NoCall /\ led = NoLedger

NextStitch ==
  \/ FirstSliceLoaded
  \/ SliceLoaded
  \/ SliceLoadFails

SpecStitch == InitStitch /\ [][NextStitch]_vars

(* ---------------- drawOverlay called on its own ---------------- *)

(* longest metadata value, in characters *)
MaxText == 6

(* JavaScript values of the metadata fields: undefined, a string (its      *)
(* characters), a number                                                   *)
Undefined == [k |-> "undefined", s |-> <<>>, n |-> 0]
Str(s) == [k |-> "string", s |-> s, n |-> 0]
Num(n) == [k |-> "number", s |-> <<>>, n |-> n]

(* if (value) *)
Truthy(v) == (v.k = "string" /\ v.s # <<>>) \/ (v.k = "number" /\ v.n # 0)

(* a value of n characters *)
Text(n) == [i \in 1..n |-> <<"a", "b", "c">>[((i - 1) % 3) + 1]]

RECURSIVE StringOfNat(_)
StringOfNat(n) ==
  IF n < 10 THEN <<<<"0", "1", "2", "3", "4", "5", "6", "7", "8", "9">>[n + 1]>>
  ELSE Append(StringOfNat(n \div 10), <<"0", "1", "2", "3", "4", "5", "6", "7", "8", "9">>[(n % 10) + 1])

(* String(value) *)
StringOf(v) ==
  IF v.k = "number" THEN StringOfNat(v.n)
  ELSE IF v.k = "string" THEN v.s
  ELSE <<"u", "n", "d", "e", "f", "i", "n", "e", "d">>

LOGGED_IN == <<"l", "o", "g", "g", "e", "d", "-", "i", "n">>
LOGGED_OUT == <<"l", "o", "g", "g", "e", "d", "-", "o", "u", "t">>

(* the labels and the two login-state texts of lineData *)
OverlayLabels ==
  [Flow |-> <<"F", "l", "o", "w", ":">>,
   Set |-> <<"S", "e", "t", ":">>,
   Step |-> <<"S", "t", "e", "p", ":">>,
   Index |-> <<"I", "n", "d", "e", "x", ":">>,
   Page |-> <<"P", "a", "g", "e", ":">>,
   State |-> <<"S", "t", "a", "t", "e", ":">>,
   Version |-> <<"V", "e", "r", "s", "i", "o", "n", ":">>,
   Captured |-> <<"C", "a", "p", "t", "u", "r", "e", "d", ":">>,
   Path |-> <<"P", "a", "t", "h", ":">>,
   LoggedIn |-> <<"L", "o", "g", "g", "e", "d", " ", "I", "n">>,
   LoggedOut |-> <<"L", "o", "g", "g", "e", "d", " ", "O", "u", "t">>]

(* const dpr = metadata.devicePixelRatio || 1 (whole ratios) *)
pixelRatio(metadata) ==
  IF Truthy(metadata.devicePixelRatio) THEN metadata.devicePixelRatio.n ELSE 1

fontSizeOf(dpr) == OVERLAY_FONT_SIZE * dpr
paddingOf(dpr) == OVERLAY_PADDING * dpr

(* ctx.font is assigned before anything is measured *)
fontKept(ctxFont, fontSize) == ctxFont
fontSet(ctxFont, fontSize) == fontSize

(* ctx.measureText(text).width in a monospace face of the given size:      *)
(* every character advances 11/20 em                                       *)
measureText(text, font) == Len(text) * ((font * 11) \div 20)

(* if (currentLine) wrappedLines.push(currentLine), after the loop         *)
dropLastLine(wrappedLines, currentLine) == wrappedLines
pushLastLine(wrappedLines, currentLine) ==
  IF currentLine # <<>> THEN Append(wrappedLines, currentLine) ELSE wrappedLines

(* the for loop of wrapText over value[i], i = 1..Len(value), and the push *)
(* of the last line after it                                               *)
RECURSIVE wrapLoop(_, _, _, _, _, _, _, _)
wrapLoop(value, i, currentLine, isFirstLine, wrappedLines, maxWidth, labelWidth, font) ==
  IF i > Len(value)
  THEN pushLastLine(wrappedLines, currentLine)
  ELSE LET testLine == Append(currentLine, value[i])
           availableWidth == IF isFirstLine THEN maxWidth - labelWidth ELSE maxWidth
       IN IF measureText(testLine, font) <= availableWidth
          THEN wrapLoop(value, i + 1, testLine, isFirstLine, wrappedLines,
                        maxWidth, labelWidth, font)
          ELSE IF currentLine # <<>>
               THEN wrapLoop(value, i + 1, <<value[i]>>, FALSE,
                             Append(wrappedLines, currentLine), maxWidth, labelWidth, font)
               ELSE wrapLoop(value, i + 1, <<value[i]>>, isFirstLine, wrappedLines,
                             maxWidth, labelWidth, font)

wrapText(label, value, maxWidth, font) ==
  LET labelWidth == measureText(label, font)
      valueWidth == measureText(value, font)
  IN IF labelWidth + valueWidth <= maxWidth
     THEN <<[label |-> label, value |-> value]>>
     ELSE LET wrappedLines == wrapLoop(value, 1, <<>>, TRUE, <<>>, maxWidth, labelWidth, font)
          IN [idx \in 1..Len(wrappedLines) |->
                [label |-> IF idx = 1 THEN label ELSE <<>>, value |-> wrappedLines[idx]]]

(* per field of FieldOrder: whether its if-test passes, its label and the  *)
(* value handed to wrapText                                                *)
fieldShown(metadata, f) ==
  IF f = "stepOrIndex" THEN metadata.stepOrIndex # Undefined ELSE Truthy(metadata[f])

fieldLabel(metadata, f) ==
  CASE f = "flowOrSetName" -> IF metadata.mode = "flow" THEN OverlayLabels.Flow ELSE OverlayLabels.Set
    [] f = "stepOrIndex" -> IF metadata.mode = "flow" THEN OverlayLabels.Step ELSE OverlayLabels.Index
    [] f = "pageName" -> OverlayLabels.Page
    [] f = "loginState" -> OverlayLabels.State
    [] f = "version" -> OverlayLabels.Version
    [] f = "timestamp" -> OverlayLabels.Captured
    [] f = "urlPath" -> OverlayLabels.Path

fieldValue(metadata, f) ==
  CASE f = "stepOrIndex" -> StringOf(metadata.stepOrIndex)
    [] f = "loginState" -> IF metadata.loginState = Str(LOGGED_IN) THEN OverlayLabels.LoggedIn ELSE OverlayLabels.LoggedOut
    [] OTHER -> metadata[f].s

(* lineData.push(...block) *)
pushBlockReplace(lineData, block) == block
pushBlock(lineData, block) == lineData \o block

RECURSIVE lineDataUpTo(_, _, _, _)
lineDataUpTo(metadata, k, maxWidth, font) ==
  IF k = 0 THEN <<>>
  ELSE LET f == FieldOrder[k]
           before == lineDataUpTo(metadata, k - 1, maxWidth, font)
       IN IF fieldShown(metadata, f)
          THEN pushBlock(before, wrapText(fieldLabel(metadata, f), fieldValue(metadata, f),
                                          maxWidth, font))
          ELSE before

(* by how many lines lineData.length grew at each field *)
blockSizes(metadata, maxWidth, font) ==
  [f \in {FieldOrder[k] : k \in 1..Len(FieldOrder)} |->
     LET k == CHOOSE i \in 1..Len(FieldOrder) : FieldOrder[i] = f
     IN Len(lineDataUpTo(metadata, k, maxWidth, font))
          - Len(lineDataUpTo(metadata, k - 1, maxWidth, font))]

(* drawOverlay(canvas, metadata): the header is laid out at the font the   *)
(* function sets, whatever font the context had; the expanded canvas holds *)
(* the band with its lines above the original content                      *)
drawOverlayOn(canvas, metadata) ==
  LET dpr == pixelRatio(metadata)
      font == fontSet(canvas.font, fontSizeOf(dpr))
      maxWidth == canvas.width - paddingOf(dpr) * 2
      surface == drawOverlay([width |-> canvas.width, height |-> canvas.height,
                              draws |-> canvas.draws, header |-> canvas.header],
                             blockSizes(metadata, maxWidth, font), dpr)
  IN [width |-> surface.width, height |-> surface.height, draws |-> surface.draws,
      header |-> surface.header, font |-> fontSizeOf(dpr),
      lineData |-> lineDataUpTo(metadata, Len(FieldOrder), maxWidth, font)]

(* stitchPartsToCanvas run to its end on a list of parts *)
RECURSIVE stitchUpTo(_, _)
stitchUpTo(parts, j) ==
  IF j = 0 THEN stitchSized(parts) ELSE stitchDraw(stitchUpTo(parts, j - 1), parts, j)

(* the parts captureFullPage returns for a page of height h *)
partsOf(h) == [i \in 1..numChunks(h) |-> makePart(h, i - 1)]

(* Metadata records drawOverlay may be handed *)
Modes == {"flow", "set"}
Metadatas ==
  [mode : Modes,
   flowOrSetName : {Undefined, Str(Text(2))},
   stepOrIndex : {Undefined, Num(0), Num(12)},
   pageName : {Undefined, Str(<<>>), Str(Text(3))},
   loginState : {Undefined, Str(LOGGED_IN), Str(LOGGED_OUT), Str(Text(1))},
   version : {Undefined, Str(Text(1))},
   timestamp : {Undefined, Str(Text(2))},
   urlPath : {Undefined, Str(Text(MaxText))},
   devicePixelRatio : {Undefined, Num(1), Num(2)}]

MetadataFields == {"mode", "flowOrSetName", "stepOrIndex", "pageName", "loginState",
                   "version", "timestamp", "urlPath", "devicePixelRatio"}
MetadataValues == [f \in MetadataFields |-> {m[f] : m \in Metadatas}]

(* Input surfaces: the page of three parts 4000, 4000, 1200 stitched at    *)
(* CAPTURE_WIDTH, and a narrow blank canvas on which values wrap; the      *)
(* context's font is whatever an earlier user of the canvas left           *)
ContextFonts == {10, 26}
Surfaces ==
  {[width |-> stitchUpTo(partsOf(9200), 3).width,
    height |-> stitchUpTo(partsOf(9200), 3).height,
    draws |-> stitchUpTo(partsOf(9200), 3).draws,
    header |-> 0, font |-> f, parts |-> partsOf(9200)] : f \in ContextFonts}
  \cup
  {[width |-> 100, height |-> 150, draws |-> <<>>, header |-> 0, font |-> f,
    parts |-> <<>>] : f \in ContextFonts}

(* drawOverlay(canvas, metadata) returns *)
OverlayDrawn ==
  /\ ov.pc = "input"
  /\ ov' = [pc |-> "drawn", canvas |-> ov.canvas, metadata |-> ov.metadata,
            out |-> drawOverlayOn(ov.canvas, ov.metadata)]
  /\ UNCHANGED <<pageVars, runs, lastExit, off, pdf, call, led>>
  /\ UNCHANGED popupVars

(* drawOverlay is called once more with the same metadata on a copy of the *)
(* input surface whose context was left with another font                  *)
OverlayAgain ==
  /\ ov.pc = "drawn"
  /\ \E f \in ContextFonts :
       LET canvas == [ov.canvas EXCEPT !.font = f] IN
       ov' = [ov EXCEPT !.canvas = canvas, !.out = drawOverlayOn(canvas, ov.metadata)]
  /\ UNCHANGED <<pageVars, runs, lastExit, off, pdf, call, led>>
  /\ UNCHANGED popupVars

(* drawOverlay is called on a copy of the input surface with a metadata    *)
(* record that differs in one field                                        *)
OverlayOther ==
  /\ ov.pc = "drawn"
  /\ \E f \in MetadataFields :
       \E v \in MetadataValues[f] \ {ov.metadata[f]} :
         LET metadata == [ov.metadata EXCEPT ![f] = v] IN
         ov' = [ov EXCEPT !.metadata = metadata, !.out = drawOverlayOn(ov.canvas, metadata)]
  /\ UNCHANGED <<pageVars, runs, lastExit, off, pdf, call, led>>
  /\ UNCHANGED popupVars

InitOverlay ==
  /\ PopupInit
  /\ off = NoStitch /\ pdf = NoPdf /\ call = NoCall /\ led = NoLedger
  /\ ov \in [pc : {"input"}, canvas : Surfaces, metadata : Metadatas]

NextOverlay ==
  \/ OverlayDrawn
  \/ OverlayAgain
  \/ OverlayOther

SpecOverlay == InitOverlay /\ [][NextOverlay]_vars

(* ---------------- generatePdf called on its own ---------------- *)

(* additional parts handed to generatePdf at most *)
MaxAdditional == 2

(* pageHeightPx = Math.round(fullWidth * A4_RATIO), A4_RATIO = 297 / 210 *)
pageHeightPx(fullWidth) == RoundDiv(fullWidth * 297, 210)

numPages(totalHeightPx, pageHeight) == CeilDiv(totalHeightPx, pageHeight)

(* srcY and srcH of page i (0-based) *)
srcHFixed(totalHeightPx, pageHeight, i) == pageHeight
srcH(totalHeightPx, pageHeight, i) == Min(pageHeight, totalHeightPx - i * pageHeight)

(* the page loop: the region of fullCanvas drawn on each page *)
pdfPages(totalHeightPx, pageHeight) ==
  [k \in 1..numPages(totalHeightPx, pageHeight) |->
     [srcY |-> (k - 1) * pageHeight, srcH |-> srcH(totalHeightPx, pageHeight, k - 1)]]

(* the first loop is over, or there was nothing to load: fullCanvas is     *)
(* composed and cut into pages                                             *)
pdfCompose(p) ==
  [p EXCEPT !.pc = "done",
            !.fullHeight = p.totalHeightPx,
            !.pages = pdfPages(p.totalHeightPx, pageHeightPx(p.first.width))]

(* Calls generatePdf(firstPageCanvas, additionalPartDataUrls): a canvas    *)
(* around the page height of its width, images of part heights; jsPDF is   *)
(* loaded or not                                                           *)
RECURSIVE PartHeightLists(_)
PartHeightLists(n) ==
  IF n = 0 THEN {<<>>}
  ELSE PartHeightLists(n - 1)
         \cup {Append(l, h) : l \in {x \in PartHeightLists(n - 1) : Len(x) = n - 1},
                              h \in {385, MAX_CHUNK_HEIGHT}}

PdfCalls ==
  {[pc |-> "call", jsPDF |-> lib, first |-> [width |-> w, height |-> h],
    more |-> l, loaded |-> 0, totalHeightPx |-> 0, fullHeight |-> 0, pages |-> <<>>] :
      lib \in BOOLEAN, w \in {100, 300, CAPTURE_WIDTH}, l \in PartHeightLists(MaxAdditional),
      h \in {1, 140, 141, 142, 424, 2036, 2037, 2038, 4166, 3 * 2037}}

(* generatePdf called: it throws without jsPDF, else it runs up to its     *)
(* first await, or to its end when there is no additional part             *)
generatePdf ==
  /\ pdf.pc = "call"
  /\ pdf' = IF ~pdf.jsPDF THEN [pdf EXCEPT !.pc = "failed"]
            ELSE LET p == [pdf EXCEPT !.totalHeightPx = pdf.first.height]
                 IN IF p.more = <<>> THEN pdfCompose(p) ELSE [p EXCEPT !.pc = "load"]
  /\ UNCHANGED <<pageVars, runs, lastExit, off, ov, call, led>>
  /\ UNCHANGED popupVars

(* an additional image loaded: totalHeightPx += img.naturalHeight *)
PdfImageLoaded ==
  /\ pdf.pc = "load"
  /\ LET p == [pdf EXCEPT !.loaded = @ + 1,
                          !.totalHeightPx = @ + pdf.more[pdf.loaded + 1]]
     IN pdf' = IF p.loaded = Len(p.more) THEN pdfCompose(p) ELSE p
  /\ UNCHANGED <<pageVars, runs, lastExit, off, ov, call, led>>
  /\ UNCHANGED popupVars

(* loadImage rejected: generatePdf rejects *)
PdfImageFails ==
  /\ pdf.pc = "load"
  /\ pdf' = [pdf EXCEPT !.pc = "failed"]
  /\ UNCHANGED <<pageVars, runs, lastExit, off, ov, call, led>>
  /\ UNCHANGED popupVars

InitPdf ==
  /\ PopupInit
  /\ off = NoStitch /\ ov = NoOverlay /\ pdf \in PdfCalls /\ call = NoCall /\ led = NoLedger

NextPdf ==
  \/ generatePdf
  \/ PdfImageLoaded
  \/ PdfImageFails

SpecPdf == InitPdf /\ [][NextPdf]_vars

(* ---------------- naming.js ---------------- *)

(* longest name handed to sanitize, in characters *)
MaxName == 3

(* Characters are strings of length one.  The classes of the two regular   *)
(* expressions of sanitize: ASCII letters, digits, white space (\s).       *)
Chars ==
  [lower |-> <<"a", "b", "c", "d", "e", "f", "g", "h", "i", "j", "k", "l", "m",
               "n", "o", "p", "q", "r", "s", "t", "u", "v", "w", "x", "y", "z">>,
   upper |-> <<"A", "B", "C", "D", "E", "F", "G", "H", "I", "J", "K", "L", "M",
               "N", "O", "P", "Q", "R", "S", "T", "U", "V", "W", "X", "Y", "Z">>,
   digits |-> {"0", "1", "2", "3", "4", "5", "6", "7", "8", "9"},
   space |-> {" ", "\t", "\n", "\r"}]

Range(q) == {q[i] : i \in DOMAIN q}
IndexOf(q, c) == CHOOSE i \in DOMAIN q : q[i] = c

(* c.toUpperCase(), c.toLowerCase() of one character *)
toUpperCase(c) == IF c \in Range(Chars.lower) THEN Chars.upper[IndexOf(Chars.lower, c)] ELSE c
toLowerCase(c) == IF c \in Range(Chars.upper) THEN Chars.lower[IndexOf(Chars.upper, c)] ELSE c

(* the complement of [^a-zA-Z0-9\s-]: the characters replace() leaves *)
keptWithUnderscore(c) ==
  c \in Range(Chars.lower) \cup Range(Chars.upper) \cup Chars.digits \cup Chars.space \cup {"-", "_"}
kept(c) ==
  c \in Range(Chars.lower) \cup Range(Chars.upper) \cup Chars.digits \cup Chars.space \cup {"-"}

(* [\s-] *)
separator(c) == c \in Chars.space \cup {"-"}

(* s.split(/[\s-]+/): the pieces between the runs of separators, the empty *)
(* piece before a leading and after a trailing run included                *)
RECURSIVE splitLoop(_, _, _, _)
splitLoop(s, i, piece, pieces) ==
  IF i > Len(s) THEN Append(pieces, piece)
  ELSE IF ~separator(s[i]) THEN splitLoop(s, i + 1, Append(piece, s[i]), pieces)
  ELSE IF i > 1 /\ separator(s[i - 1]) THEN splitLoop(s, i + 1, piece, pieces)
  ELSE splitLoop(s, i + 1, <<>>, Append(pieces, piece))

split(s) == splitLoop(s, 1, <<>>, <<>>)

(* w => w.charAt(0).toUpperCase() + w.slice(1).toLowerCase() *)
titleCase(w) == [i \in DOMAIN w |-> IF i = 1 THEN toUpperCase(w[i]) ELSE toLowerCase(w[i])]

(* words.join(sep) *)
RECURSIVE join(_, _)
join(words, sep) ==
  IF words = <<>> THEN <<>>
  ELSE IF Len(words) = 1 THEN words[1]
  ELSE words[1] \o sep \o join(Tail(words), sep)

sanitize(name) ==
  LET stripped == SelectSeq(name, kept)
      words == SelectSeq(split(stripped), LAMBDA w : w # <<>>)
  IN join([i \in DOMAIN words |-> titleCase(words[i])], <<>>)

(* the literal pieces of the templates of naming.js *)
NameParts ==
  [Step |-> <<"S", "t", "e", "p">>,
   LP |-> <<"L", "P">>,
   LoggedIn |-> <<"L", "o", "g", "g", "e", "d", "I", "n">>,
   LoggedOut |-> <<"L", "o", "g", "g", "e", "d", "O", "u", "t">>,
   en |-> <<"_", "e", "n", "_">>,
   Exemplars |-> <<"E", "x", "e", "m", "p", "l", "a", "r", "s", "/">>,
   Flow |-> <<"F", "l", "o", "w">>,
   Set |-> <<"S", "e", "t">>,
   manifest |-> <<"m", "a", "n", "i", "f", "e", "s", "t", "_">>,
   csv |-> <<".", "c", "s", "v">>,
   flow |-> <<"f", "l", "o", "w">>,
   set |-> <<"s", "e", "t">>]

formatState(state) == IF state = LOGGED_IN THEN NameParts.LoggedIn ELSE NameParts.LoggedOut

(* s.padStart(2, '0') *)
padStartNone(s) == s
padStart(s) == IF Len(s) < 2 THEN [i \in 1..(2 - Len(s)) |-> "0"] \o s ELSE s

(* generateFilename with flowFilename and setFilename; stepOrIndex is a    *)
(* natural number, the other arguments are strings                         *)
generateFilename(mode, stepOrIndex, pageName, state, version, date, ext) ==
  LET rest == padStart(StringOfNat(stepOrIndex)) \o <<"_">> \o sanitize(pageName) \o <<"_">>
                \o formatState(state) \o NameParts.en \o version \o <<"_">> \o date
                \o <<".">> \o ext
  IN IF mode = NameParts.flow THEN NameParts.Step \o rest ELSE NameParts.LP \o rest

generateFolderPath(date, version, mode, name) ==
  LET modePrefix == IF mode = NameParts.flow THEN NameParts.Flow ELSE NameParts.Set
  IN NameParts.Exemplars \o date \o <<"_">> \o version \o <<"/">> \o modePrefix
       \o <<"_">> \o sanitize(name)

generateFullPathFixedVersion(s, stepOrIndex, pageName, ext) ==
  LET folder == generateFolderPath(s.date, <<>>, s.mode, s.flowOrSetName)
      filename == generateFilename(s.mode, stepOrIndex, pageName, s.loginState,
                                   s.version, s.date, ext)
  IN [folder |-> folder, filename |-> filename, fullPath |-> folder \o <<"/">> \o filename]
generateFullPath(s, stepOrIndex, pageName, ext) ==
  LET folder == generateFolderPath(s.date, s.version, s.mode, s.flowOrSetName)
      filename == generateFilename(s.mode, stepOrIndex, pageName, s.loginState,
                                   s.version, s.date, ext)
  IN [folder |-> folder, filename |-> filename, fullPath |-> folder \o <<"/">> \o filename]

manifestFilename(date, version) ==
  NameParts.manifest \o date \o <<"_">> \o version \o NameParts.csv

(* Calls of the functions of naming.js: names over a small alphabet with   *)
(* letters of both cases, a digit, separators and characters the first     *)
(* regular expression deletes; the page name, version and date of the      *)
(* README's example among the arguments.                                   *)
NamingInputs ==
  [alphabet |-> {"a", "B", "7", " ", "-", "_", "!"},
   pageNames |-> {<<"C", "h", "e", "c", "k", "o", "u", "t", " ", "P", "a", "g", "e", "!">>,
                  <<"f", "A", "Q", "-", "2">>, <<"!">>},
   modes |-> {NameParts.flow, NameParts.set, NameParts.Flow},
   steps |-> {0, 7, 12, 123},
   states |-> {LOGGED_IN, LOGGED_OUT, <<>>},
   versions |-> {<<"v", "3", ".", "1", "2", ".", "0">>, <<>>},
   dates |-> {<<"2", "0", "2", "6", "-", "0", "2", "-", "0", "9">>},
   exts |-> {<<"p", "n", "g">>, <<"p", "d", "f">>},
   names |-> {<<"C", "h", "e", "c", "k", "o", "u", "t", " ", "F", "l", "o", "w">>, <<"l", "p">>}]

Names == UNION {[1..n -> NamingInputs.alphabet] : n \in 0..MaxName} \cup NamingInputs.pageNames

NamingCalls ==
  {[pc |-> "call", fn |-> "sanitize", name |-> s, out |-> <<>>] : s \in Names}
  \cup {[pc |-> "call", fn |-> "generateFilename", mode |-> m, stepOrIndex |-> n,
         pageName |-> p, state |-> st, version |-> v, date |-> d, ext |-> e,
         out |-> <<>>, again |-> <<>>] :
          m \in NamingInputs.modes, n \in NamingInputs.steps, p \in NamingInputs.pageNames,
          st \in NamingInputs.states, v \in NamingInputs.versions, d \in NamingInputs.dates,
          e \in NamingInputs.exts}
  \cup {[pc |-> "call", fn |-> "generateFullPath",
         session |-> [mode |-> m, date |-> d, version |-> v, flowOrSetName |-> f,
                      loginState |-> st],
         stepOrIndex |-> n, pageName |-> p, ext |-> e,
         out |-> [folder |-> <<>>, filename |-> <<>>, fullPath |-> <<>>]] :
          m \in NamingInputs.modes, d \in NamingInputs.dates, v \in NamingInputs.versions,
          f \in NamingInputs.names, st \in NamingInputs.states, n \in {7},
          p \in NamingInputs.pageNames, e \in NamingInputs.exts}

textRest == <<pageVars, runs, lastExit, off, ov, pdf, led>>

sanitizeCalled ==
  /\ call.pc = "call" /\ call.fn = "sanitize"
  /\ call' = [call EXCEPT !.pc = "done", !.out = sanitize(call.name)]
  /\ UNCHANGED textRest
  /\ UNCHANGED popupVars

(* generateFilename called, and called once more with the same arguments *)
generateFilenameCalled ==
  /\ call.pc \in {"call", "done"} /\ call.fn = "generateFilename"
  /\ LET filename == generateFilename(call.mode, call.stepOrIndex, call.pageName,
                                      call.state, call.version, call.date, call.ext)
     IN call' = IF call.pc = "call" THEN [call EXCEPT !.pc = "done", !.out = filename]
                ELSE [call EXCEPT !.pc = "twice", !.again = filename]
  /\ UNCHANGED textRest
  /\ UNCHANGED popupVars

generateFullPathCalled ==
  /\ call.pc = "call" /\ call.fn = "generateFullPath"
  /\ call' = [call EXCEPT !.pc = "done",
                          !.out = generateFullPath(call.session, call.stepOrIndex,
                                                   call.pageName, call.ext)]
  /\ UNCHANGED textRest
  /\ UNCHANGED popupVars

InitNaming ==
  /\ PopupInit
  /\ off = NoStitch /\ ov = NoOverlay /\ pdf = NoPdf /\ call \in NamingCalls /\ led = NoLedger

NextNaming ==
  \/ sanitizeCalled
  \/ generateFilenameCalled
  \/ generateFullPathCalled

SpecNaming == InitNaming /\ [][NextNaming]_vars

(* ---------------- the popup's session ledger ---------------- *)

(* The popup controller once more, with the data its handlers store: url   *)
(* paths, login states, page names, versions, file names, manifest rows.   *)
(* The capture pipeline between the name prompt and the stitched canvas is *)
(* one step here (it either yields a capture result or fails).             *)

MaxSaves == 2       \* Save clicks
MaxClicks == 2      \* Capture clicks
MaxSessions == 2    \* sessions started
MaxEdits == 1       \* edit forms submitted

null == [none |-> TRUE]

(* the tabs' url paths, the names and versions its user types, the session *)
(* form's values                                                           *)
LedgerInputs ==
  [urlPaths |-> {"/a", "/b"},
   pageNames |-> {<<"H", "o", "m", "e">>},
   editNames |-> {<<"H", "o", "m", "e">>, <<"C", "a", "r", "t">>},
   versions |-> {<<>>, <<"v", "1">>},
   date |-> <<"2", "0", "2", "6", "-", "0", "2", "-", "0", "9">>,
   flowOrSetName |-> <<"l", "p">>,
   pdf |-> <<"p", "d", "f">>]

(* getUrlKey: `${urlPath}|${loginState}`, kept as the pair *)
getUrlKey(urlPath, loginState) == <<urlPath, loginState>>

(* the popup after init() with nothing in storage: the state variables as  *)
(* declared, the setup view, an empty sink                                 *)
LedgerInit ==
  [session |-> null, stepCounter |-> 1, currentCaptureState |-> LOGGED_OUT,
   pendingCapture |-> null, isDuplicate |-> FALSE,
   view |-> "setup", prompt |-> FALSE, warning |-> FALSE, description |-> FALSE,
   status |-> [message |-> "", type |-> "none"],
   manifest |-> <<>>, captureHistory |-> {}, pageNames |-> {}, lastCapture |-> null,
   sink |-> <<>>, exports |-> <<>>, saves |-> <<>>,
   sessions |-> 0, clicks |-> 0, saveClicks |-> 0, edits |-> 0, saved |-> {}]

ledgerRest == <<pageVars, runs, lastExit, off, ov, pdf, call>>

(* nowTimestamp(): the clock ticks with every capture and every edit *)
nowTimestamp(l) == l.clicks + l.edits + 1

(* no handleSaveCapture is in flight *)
NoSave == led.saves = <<>>

(* handleStartSession(mode): the setup form submitted with a name *)
LStartSession(mode) ==
  /\ led.view = "setup"
  /\ led.sessions < MaxSessions
  /\ led' = [led EXCEPT !.sessions = @ + 1,
                        !.session = [mode |-> mode, date |-> LedgerInputs.date,
                                     flowOrSetName |-> LedgerInputs.flowOrSetName],
                        !.stepCounter = 1,
                        !.currentCaptureState = LOGGED_OUT,
                        !.manifest = <<>>, !.pageNames = {}, !.captureHistory = {},
                        !.view = "capture", !.saved = {}]
  /\ UNCHANGED ledgerRest
  /\ UNCHANGED popupVars

(* btnCounterDec, btnCounterInc *)
LCounter(d) ==
  /\ led.view = "capture"
  /\ IF d = -1 THEN led.stepCounter > 1 ELSE led.stepCounter < MaxSaves
  /\ led' = [led EXCEPT !.stepCounter = @ + d]
  /\ UNCHANGED ledgerRest
  /\ UNCHANGED popupVars

(* showPageNamePrompt and the .then that shows the prompt *)
LPrompt(l) ==
  LET state == IF l.session.mode = NameParts.set THEN LOGGED_OUT ELSE l.currentCaptureState
  IN [l EXCEPT !.currentCaptureState = state,
               !.pendingCapture.loginState = state,
               !.pendingCapture.urlKey = getUrlKey(l.pendingCapture.urlPath, state),
               !.prompt = TRUE]

(* the duplicate check of handleCapture: a key of either login state *)
existingKeySameState(l, urlPath) ==
  {k \in l.captureHistory : k = getUrlKey(urlPath, l.currentCaptureState)}
existingKey(l, urlPath) ==
  {k \in l.captureHistory : k \in {getUrlKey(urlPath, LOGGED_IN), getUrlKey(urlPath, LOGGED_OUT)}}

(* handleCapture with the active tab at urlPath *)
LCapture(urlPath) ==
  /\ led.view = "capture" /\ led.session # null
  /\ led.clicks < MaxClicks
  /\ LET l == [led EXCEPT !.clicks = @ + 1,
                          !.status = [message |-> "Preparing capture...", type |-> "info"],
                          !.isDuplicate = FALSE,
                          !.pendingCapture =
                             [urlPath |-> urlPath, timestamp |-> nowTimestamp(led),
                              loginState |-> <<>>, urlKey |-> <<>>, pageName |-> <<>>,
                              version |-> <<>>, captureResult |-> FALSE]]
     IN led' = IF existingKey(l, urlPath) # {} THEN [l EXCEPT !.warning = TRUE]
               ELSE LPrompt(l)
  /\ UNCHANGED ledgerRest
  /\ UNCHANGED popupVars

(* a login-state button of the prompt (shown in flow mode) *)
LToggleState(state) ==
  /\ led.view = "capture" /\ led.prompt
  /\ led.session # null /\ led.session.mode = NameParts.flow
  /\ led.currentCaptureState # state
  /\ led' = [led EXCEPT !.currentCaptureState = state]
  /\ UNCHANGED ledgerRest
  /\ UNCHANGED popupVars

(* btnDupProceed; showPageNamePrompt throws when pendingCapture is null *)
LDupProceed ==
  /\ led.view = "capture" /\ led.warning
  /\ LET l == [led EXCEPT !.isDuplicate = TRUE, !.warning = FALSE]
     IN led' = IF l.pendingCapture = null \/ l.session = null THEN l ELSE LPrompt(l)
  /\ UNCHANGED ledgerRest
  /\ UNCHANGED popupVars

(* btnDupCancel *)
LDupCancel ==
  /\ led.view = "capture" /\ led.warning
  /\ led' = [led EXCEPT !.warning = FALSE, !.pendingCapture = null]
  /\ UNCHANGED ledgerRest
  /\ UNCHANGED popupVars

(* handlePageNameConfirm with a name and a version typed, then             *)
(* proceedWithCapture to its end: a capture result, or the catch block     *)
LConfirm(name, version, ok) ==
  /\ led.view = "capture" /\ led.prompt
  /\ led.pendingCapture # null
  /\ LET state == led.currentCaptureState
         l == [led EXCEPT !.pendingCapture.loginState = state,
                          !.pendingCapture.urlKey = getUrlKey(led.pendingCapture.urlPath, state),
                          !.pendingCapture.pageName = name,
                          !.pendingCapture.version = version,
                          !.prompt = FALSE]
     IN led' = IF ok /\ led.session # null
               THEN [l EXCEPT !.pendingCapture.captureResult = TRUE,
                              !.description = TRUE,
                              !.status = [message |-> "Screenshot captured", type |-> "success"]]
               ELSE [l EXCEPT !.pendingCapture = null,
                              !.status = [message |-> "Capture failed", type |-> "error"]]
  /\ UNCHANGED ledgerRest
  /\ UNCHANGED popupVars

(* ---- handleSaveCapture, any number of invocations in flight ---- *)

(* the outer catch block of invocation i: the status line, nothing else *)
saveThrows(l, i, message) ==
  showStatus([l EXCEPT !.saves = Without(@, i)], message, "error")

(* Save clicked: the guard, generateFullPath for the PDF (the session      *)
(* object carries no loginState), generatePdf called                       *)
LSave ==
  /\ led.view = "capture" /\ led.description
  /\ led.saveClicks < MaxSaves
  /\ led.pendingCapture # null /\ led.pendingCapture.captureResult
  /\ LET pdfPaths == generateFullPath(
                       [mode |-> led.session.mode, date |-> led.session.date,
                        flowOrSetName |-> led.session.flowOrSetName,
                        version |-> led.pendingCapture.version, loginState |-> <<>>],
                       led.stepCounter, led.pendingCapture.pageName, LedgerInputs.pdf)
     IN led' = showStatus(
                 [led EXCEPT !.saveClicks = @ + 1,
                             !.saves = Append(@, [pc |-> "pdf", pdfPaths |-> pdfPaths,
                                                  capture |-> led.pendingCapture.timestamp,
                                                  step |-> led.stepCounter,
                                                  local |-> null])],
                 "Generating PDF...", "info")
  /\ UNCHANGED ledgerRest
  /\ UNCHANGED popupVars

(* generatePdf resolved *)
LSavePdfOk(i) ==
  /\ led.saves[i].pc = "pdf"
  /\ led' = showStatus([led EXCEPT !.saves[i].pc = "write"], "Saving PDF...", "info")
  /\ UNCHANGED ledgerRest
  /\ UNCHANGED popupVars

(* generatePdf or the write to the sink rejected *)
LSaveFail(i) ==
  /\ led.saves[i].pc \in {"pdf", "write"}
  /\ led' = saveThrows(led, i, IF led.saves[i].pc = "pdf" THEN "PDF generation failed"
                                 ELSE "write failed")
  /\ UNCHANGED ledgerRest
  /\ UNCHANGED popupVars

(* a chrome.storage call of the handler rejected (the quota is exceeded,   *)
(* the extension context is gone): the same catch block                    *)
LSaveStorageFail(i) ==
  /\ led.saves[i].pc \in {"mget", "mset", "hget", "hset", "fin"}
  /\ led' = saveThrows(led, i, "storage failed")
  /\ UNCHANGED ledgerRest
  /\ UNCHANGED popupVars

(* the fields of the row object of createManifestRow that differ between   *)
(* the rows of a session                                                   *)
manifestRowOf(l, pdfFilename) ==
  [timestamp |-> l.pendingCapture.timestamp,
   version |-> l.pendingCapture.version,
   mode |-> IF l.session.mode = NameParts.flow THEN NameParts.Flow ELSE NameParts.Set,
   stepOrIndex |-> l.stepCounter,
   pageName |-> l.pendingCapture.pageName,
   loginState |-> IF l.pendingCapture.loginState = LOGGED_IN THEN OverlayLabels.LoggedIn
                  ELSE OverlayLabels.LoggedOut,
   urlPath |-> l.pendingCapture.urlPath,
   pngFilename |-> <<>>,
   pdfFilename |-> pdfFilename,
   duplicate |-> IF l.isDuplicate THEN "true" ELSE "false"]

(* the document is in the sink; the row is built from pendingCapture (a    *)
(* TypeError when it is null by now) and the manifest is requested         *)
LSaveWriteOk(i) ==
  /\ led.saves[i].pc = "write"
  /\ LET l == [led EXCEPT !.sink = Append(@, led.saves[i].pdfPaths.fullPath)]
     IN led' = IF l.pendingCapture = null \/ l.session = null
               THEN saveThrows(l, i, "TypeError")
               ELSE [l EXCEPT !.saves[i].pc = "mget",
                              !.saves[i].local = manifestRowOf(l, l.saves[i].pdfPaths.filename)]
  /\ UNCHANGED ledgerRest
  /\ UNCHANGED popupVars

(* storage answered: rows.push(manifestRow), the store requested *)
LSaveManifestRead(i) ==
  /\ led.saves[i].pc = "mget"
  /\ led' = [led EXCEPT !.saves[i].pc = "mset",
                        !.saves[i].local = Append(led.manifest, led.saves[i].local)]
  /\ UNCHANGED ledgerRest
  /\ UNCHANGED popupVars

(* the rows are stored; page names and capture history requested *)
LSaveManifestWrite(i) ==
  /\ led.saves[i].pc = "mset"
  /\ led' = [led EXCEPT !.manifest = led.saves[i].local,
                        !.saves[i].pc = "hget", !.saves[i].local = null]
  /\ UNCHANGED ledgerRest
  /\ UNCHANGED popupVars

(* pageNames[key] = name on a set of <<key, name>> pairs *)
setPageName(pageNames, key, name) == {p \in pageNames : p[1] # key} \cup {<<key, name>>}

(* storage answered: the entries under pendingCapture.urlKey (a TypeError  *)
(* when pendingCapture is null), lastCaptureData, the store requested      *)
LSaveHistoryRead(i) ==
  /\ led.saves[i].pc = "hget"
  /\ led' = IF led.pendingCapture = null
            THEN saveThrows(led, i, "TypeError")
            ELSE LET p == led.pendingCapture IN
                 [led EXCEPT !.saves[i].pc = "hset",
                             !.saves[i].local =
                                [pageNames |-> setPageName(led.pageNames, p.urlKey, p.pageName),
                                 captureHistory |-> led.captureHistory \cup {p.urlKey},
                                 lastCaptureData |->
                                   [pageName |-> p.pageName, version |-> p.version,
                                    pdfFilename |-> led.saves[i].pdfPaths.filename,
                                    stepOrIndex |-> led.stepCounter,
                                    loginState |-> p.loginState, urlPath |-> p.urlPath,
                                    urlKey |-> p.urlKey]]]
  /\ UNCHANGED ledgerRest
  /\ UNCHANGED popupVars

(* the three keys are stored; stepCounter++ and saveStepCounter called *)
LSaveHistoryWrite(i) ==
  /\ led.saves[i].pc = "hset"
  /\ led' = [led EXCEPT !.pageNames = led.saves[i].local.pageNames,
                        !.captureHistory = led.saves[i].local.captureHistory,
                        !.lastCapture = led.saves[i].local.lastCaptureData,
                        !.stepCounter = @ + 1,
                        !.saves[i].pc = "fin", !.saves[i].local = null]
  /\ UNCHANGED ledgerRest
  /\ UNCHANGED popupVars

(* saveStepCounter resolved: the reset at the end of the try block *)
LSaveReset(i) ==
  /\ led.saves[i].pc = "fin"
  /\ led' = showStatus([led EXCEPT !.pendingCapture = null, !.isDuplicate = FALSE,
                                   !.description = FALSE,
                                   !.saved = @ \cup {led.saves[i].capture},
                                   !.saves = Without(@, i)],
                       "Saved", "success")
  /\ UNCHANGED ledgerRest
  /\ UNCHANGED popupVars

(* ---- edit-last and End Session, run to their end ---- *)

(* handleEditLast, btnCancelEdit *)
LEditLast ==
  /\ led.view = "capture" /\ led.lastCapture # null
  /\ led.edits < MaxEdits
  /\ led' = [led EXCEPT !.view = "edit"]
  /\ UNCHANGED ledgerRest
  /\ UNCHANGED popupVars

LCancelEdit ==
  /\ led.view = "edit"
  /\ led' = [led EXCEPT !.view = "capture"]
  /\ UNCHANGED ledgerRest
  /\ UNCHANGED popupVars

(* a findIndex that takes the first row whatever file name it carries *)
findIndexFirstRow(list, pdfFilename) == IF list # <<>> THEN 1 ELSE 0

(* rows.findIndex(r => r.pdfFilename === pdfFilename), 0 for -1 *)
findIndex(list, pdfFilename) ==
  IF \E j \in DOMAIN list : list[j].pdfFilename = pdfFilename
  THEN CHOOSE j \in DOMAIN list :
         /\ list[j].pdfFilename = pdfFilename
         /\ \A k \in 1..(j - 1) : list[k].pdfFilename # pdfFilename
  ELSE 0

(* handleSaveEdit with the form's values *)
LSaveEdit(newPageName, newVersion, newStepIndex, newLoginState) ==
  /\ led.view = "edit" /\ led.lastCapture # null
  /\ LET lastData == led.lastCapture
         newPdfPaths == generateFullPath(
                          [mode |-> led.session.mode, date |-> led.session.date,
                           flowOrSetName |-> led.session.flowOrSetName,
                           version |-> newVersion, loginState |-> newLoginState],
                          newStepIndex, newPageName, LedgerInputs.pdf)
         idx == findIndex(led.manifest, lastData.pdfFilename)
         row == [timestamp |-> nowTimestamp(led), version |-> newVersion,
                 mode |-> IF led.session.mode = NameParts.flow THEN NameParts.Flow
                          ELSE NameParts.Set,
                 stepOrIndex |-> newStepIndex, pageName |-> newPageName,
                 loginState |-> IF newLoginState = LOGGED_IN THEN OverlayLabels.LoggedIn
                                ELSE OverlayLabels.LoggedOut,
                 urlPath |-> lastData.urlPath, pngFilename |-> <<>>,
                 pdfFilename |-> newPdfPaths.filename, duplicate |-> "false"]
         newKey == getUrlKey(lastData.urlPath, newLoginState)
     IN led' = showStatus(
                 [led EXCEPT !.manifest = IF idx >= 1 THEN [@ EXCEPT ![idx] = row] ELSE @,
                             !.edits = @ + 1,
                             !.lastCapture =
                                [lastData EXCEPT !.pageName = newPageName,
                                                 !.version = newVersion,
                                                 !.stepOrIndex = newStepIndex,
                                                 !.loginState = newLoginState,
                                                 !.pdfFilename = newPdfPaths.filename,
                                                 !.urlKey = newKey],
                             !.pageNames = setPageName({p \in @ : p[1] # lastData.urlKey},
                                                       newKey, newPageName),
                             !.view = "capture"],
                 "Capture updated successfully.", "success")
  /\ UNCHANGED ledgerRest
  /\ UNCHANGED popupVars

(* handleEndSession, confirmed: the manifest export (written or rejected), *)
(* then storage and the session are cleared                                *)
LEndSession(written) ==
  /\ led.view = "capture"
  /\ LET folder == generateFolderPath(led.session.date, <<>>, led.session.mode,
                                      led.session.flowOrSetName)
         mFilename == manifestFilename(led.session.date, <<>>)
         l == IF led.manifest # <<>> /\ written
              THEN showStatus([led EXCEPT !.exports =
                                 Append(@, [folder |-> folder, filename |-> mFilename,
                                            rows |-> led.manifest])],
                              "Manifest exported.", "success")
              ELSE led
     IN led' = [l EXCEPT !.manifest = <<>>, !.pageNames = {}, !.captureHistory = {},
                         !.lastCapture = null, !.session = null, !.stepCounter = 1,
                         !.view = "setup"]
  /\ UNCHANGED ledgerRest
  /\ UNCHANGED popupVars

(* the edit form as handleEditLast filled it, with at most one field      *)
(* changed by its user                                                     *)
EditForms ==
  LET filled == [pageName |-> led.lastCapture.pageName, version |-> led.lastCapture.version,
                 stepOrIndex |-> led.lastCapture.stepOrIndex,
                 loginState |-> led.lastCapture.loginState]
  IN {filled}
     \cup {[filled EXCEPT !.pageName = v] : v \in LedgerInputs.editNames}
     \cup {[filled EXCEPT !.version = v] : v \in LedgerInputs.versions}
     \cup {[filled EXCEPT !.stepOrIndex = v] : v \in 1..MaxSaves}
     \cup {[filled EXCEPT !.loginState = v] : v \in {LOGGED_IN, LOGGED_OUT}}

InitLedger ==
  /\ PopupInit
  /\ off = NoStitch /\ ov = NoOverlay /\ pdf = NoPdf /\ call = NoCall /\ led = LedgerInit

(* One handler at a time: the user clicks when nothing is in flight. *)
NextLedger ==
  \/ NoSave /\ \E mode \in {NameParts.flow, NameParts.set} : LStartSession(mode)
  \/ NoSave /\ \E d \in {-1, 1} : LCounter(d)
  \/ NoSave /\ \E urlPath \in LedgerInputs.urlPaths : LCapture(urlPath)
  \/ NoSave /\ \E state \in {LOGGED_IN, LOGGED_OUT} : LToggleState(state)
  \/ NoSave /\ LDupProceed
  \/ NoSave /\ LDupCancel
  \/ NoSave /\ \E name \in LedgerInputs.pageNames, version \in LedgerInputs.versions,
                  ok \in BOOLEAN : LConfirm(name, version, ok)
  \/ NoSave /\ LSave
  \/ \E i \in DOMAIN led.saves : LSavePdfOk(i)
  \/ \E i \in DOMAIN led.saves : LSaveFail(i)
  \/ \E i \in DOMAIN led.saves : LSaveWriteOk(i)
  \/ \E i \in DOMAIN led.saves : LSaveManifestRead(i)
  \/ \E i \in DOMAIN led.saves : LSaveManifestWrite(i)
  \/ \E i \in DOMAIN led.saves : LSaveHistoryRead(i)
  \/ \E i \in DOMAIN led.saves : LSaveHistoryWrite(i)
  \/ \E i \in DOMAIN led.saves : LSaveReset(i)
  \/ NoSave /\ LEditLast
  \/ LCancelEdit
  \/ led.view = "edit" /\ \E form \in EditForms : LSaveEdit(form.pageName, form.version, form.stepOrIndex,
                                        form.loginState)
  \/ NoSave /\ \E written \in BOOLEAN : LEndSession(written)

SpecLedger == InitLedger /\ [][NextLedger]_vars

(* Save clicks at any time: a click while earlier invocations are at their *)
(* awaits starts another one.                                              *)
NextSaveRace ==
  \/ NoSave /\ LStartSession(NameParts.flow)
  \/ NoSave /\ \E urlPath \in LedgerInputs.urlPaths : LCapture(urlPath)
  \/ NoSave /\ \E name \in LedgerInputs.pageNames, version \in LedgerInputs.versions :
                 LConfirm(name, version, TRUE)
  \/ LSave
  \/ \E i \in DOMAIN led.saves : LSavePdfOk(i)
  \/ \E i \in DOMAIN led.saves : LSaveFail(i)
  \/ \E i \in DOMAIN led.saves : LSaveWriteOk(i)
  \/ \E i \in DOMAIN led.saves : LSaveManifestRead(i)
  \/ \E i \in DOMAIN led.saves : LSaveManifestWrite(i)
  \/ \E i \in DOMAIN led.saves : LSaveHistoryRead(i)
  \/ \E i \in DOMAIN led.saves : LSaveHistoryWrite(i)
  \/ \E i \in DOMAIN led.saves : LSaveReset(i)

SpecSaveRace == InitLedger /\ [][NextSaveRace]_vars

(* handleSaveCapture one invocation at a time, every await of it free to   *)
(* reject, chrome.storage calls included                                   *)
NextSaveFailure ==
  \/ NoSave /\ \E mode \in {NameParts.flow, NameParts.set} : LStartSession(mode)
  \/ NoSave /\ \E d \in {-1, 1} : LCounter(d)
  \/ NoSave /\ \E urlPath \in LedgerInputs.urlPaths : LCapture(urlPath)
  \/ NoSave /\ LDupProceed
  \/ NoSave /\ \E name \in LedgerInputs.pageNames, ok \in BOOLEAN : LConfirm(name, <<>>, ok)
  \/ NoSave /\ LSave
  \/ \E i \in DOMAIN led.saves : LSavePdfOk(i)
  \/ \E i \in DOMAIN led.saves : LSaveFail(i)
  \/ \E i \in DOMAIN led.saves : LSaveStorageFail(i)
  \/ \E i \in DOMAIN led.saves : LSaveWriteOk(i)
  \/ \E i \in DOMAIN led.saves : LSaveManifestRead(i)
  \/ \E i \in DOMAIN led.saves : LSaveManifestWrite(i)
  \/ \E i \in DOMAIN led.saves : LSaveHistoryRead(i)
  \/ \E i \in DOMAIN led.saves : LSaveHistoryWrite(i)
  \/ \E i \in DOMAIN led.saves : LSaveReset(i)
  \/ NoSave /\ \E written \in BOOLEAN : LEndSession(written)

SpecSaveFailure == InitLedger /\ [][NextSaveFailure]_vars

(* ---------------- csv.js: the manifest serialization ---------------- *)

MaxField == 3       \* longest generated field value, in characters
MaxRows == 2        \* rows handed to generateCsv at most

(* the header names in column order, and beside each the key of the row    *)
(* object HEADER_TO_KEY gives for it                                       *)
CSV_HEADERS ==
  <<<<"T", "i", "m", "e", "s", "t", "a", "m", "p">>,
    <<"V", "e", "r", "s", "i", "o", "n">>,
    <<"M", "o", "d", "e">>,
    <<"F", "l", "o", "w", "O", "r", "S", "e", "t", "N", "a", "m", "e">>,
    <<"S", "t", "e", "p", "O", "r", "I", "n", "d", "e", "x">>,
    <<"P", "a", "g", "e", "N", "a", "m", "e">>,
    <<"L", "o", "g", "i", "n", "S", "t", "a", "t", "e">>,
    <<"L", "a", "n", "g", "u", "a", "g", "e">>,
    <<"H", "o", "s", "t", "n", "a", "m", "e">>,
    <<"F", "u", "l", "l", "U", "R", "L">>,
    <<"U", "R", "L", "P", "a", "t", "h">>,
    <<"P", "N", "G", "F", "i", "l", "e", "n", "a", "m", "e">>,
    <<"P", "D", "F", "F", "i", "l", "e", "n", "a", "m", "e">>,
    <<"D", "e", "s", "c", "r", "i", "p", "t", "i", "o", "n">>,
    <<"D", "u", "p", "l", "i", "c", "a", "t", "e">>>>

HEADER_TO_KEY ==
  <<"timestamp", "version", "mode", "flowOrSetName", "stepOrIndex", "pageName",
    "loginState", "language", "hostname", "fullURL", "urlPath", "pngFilename",
    "pdfFilename", "description", "duplicate">>

(* str.includes(',') || str.includes('"') || str.includes('\n') || str.includes('\r') *)
includesSpecialButCr(str) == \E i \in DOMAIN str : str[i] \in {",", "\"", "\n"}
includesSpecial(str) == \E i \in DOMAIN str : str[i] \in {",", "\"", "\n", "\r"}

(* str.replace(/"/g, '""') *)
replaceQuotesNot(str) == str
RECURSIVE replaceQuotes(_)
replaceQuotes(str) ==
  IF str = <<>> THEN <<>>
  ELSE (IF Head(str) = "\"" THEN <<"\"", "\"">> ELSE <<Head(str)>>) \o replaceQuotes(Tail(str))

(* escapeCsvValue; String(value ?? '') of undefined (or null), a string, a *)
(* number                                                                  *)
escapeCsvValue(value) ==
  LET str == IF value = Undefined THEN <<>> ELSE StringOf(value)
  IN IF includesSpecial(str) THEN <<"\"">> \o replaceQuotes(str) \o <<"\"">> ELSE str

rowToCsvLine(row) ==
  join([i \in DOMAIN CSV_HEADERS |-> escapeCsvValue(row[HEADER_TO_KEY[i]])], <<",">>)

generateCsv(list) ==
  LET headerLine == join(CSV_HEADERS, <<",">>)
      dataLines == [i \in DOMAIN list |-> rowToCsvLine(list[i])]
  IN headerLine \o <<"\n">> \o join(dataLines, <<"\n">>) \o <<"\n">>

(* createManifestRow: x || d, x ?? d, x ? 'true' : 'false'; the locale     *)
(* string of the clock stands in for a missing timestamp                   *)
createManifestRow(d) ==
  LET or(x, dflt) == IF Truthy(x) THEN x ELSE Str(dflt)
  IN [timestamp |-> or(d.timestamp, <<"2", "/", "9", "/", "2", "6", ",", " ", "1", "0", ":", "0", "0">>),
      version |-> or(d.version, <<>>),
      mode |-> or(d.mode, <<>>),
      flowOrSetName |-> or(d.flowOrSetName, <<>>),
      stepOrIndex |-> IF d.stepOrIndex = Undefined THEN Str(<<>>) ELSE d.stepOrIndex,
      pageName |-> or(d.pageName, <<>>),
      loginState |-> or(d.loginState, <<>>),
      language |-> or(d.language, <<"e", "n">>),
      hostname |-> or(d.hostname, <<>>),
      fullURL |-> or(d.fullURL, <<>>),
      urlPath |-> or(d.urlPath, <<>>),
      pngFilename |-> or(d.pngFilename, <<>>),
      pdfFilename |-> or(d.pdfFilename, <<>>),
      description |-> or(d.description, <<>>),
      duplicate |-> IF Truthy(d.duplicate) THEN Str(<<"t", "r", "u", "e">>)
                    ELSE Str(<<"f", "a", "l", "s", "e">>)]

(* Field values: undefined, numbers, every string of up to MaxField        *)
(* characters over a letter and the four characters escapeCsvValue looks   *)
(* for, and the description of the specification's example.  Row objects:  *)
(* a plain row with one field replaced by such a value.                    *)
CsvInputs ==
  [alphabet |-> {"a", ",", "\"", "\n", "\r"},
   example |-> <<"R", "e", "f", "u", "n", "d", ",", " ", "3", "0", " ", "d", "a", "y", "s", " ",
                 "\"", "g", "u", "a", "r", "a", "n", "t", "e", "e", "d", "\"">>,
   plain |-> [k \in Range(HEADER_TO_KEY) |-> IF k = "stepOrIndex" THEN Num(7) ELSE Str(<<"x">>)]]

FieldValues ==
  {Undefined, Num(0), Num(12), Str(CsvInputs.example)}
    \cup {Str(s) : s \in UNION {[1..n -> CsvInputs.alphabet] : n \in 0..MaxField}}

RowObjects == {[CsvInputs.plain EXCEPT ![k] = v] : k \in Range(HEADER_TO_KEY), v \in FieldValues}

(* lists of up to n rows out of a few *)
RECURSIVE RowLists(_)
RowLists(n) ==
  IF n = 0 THEN {<<>>}
  ELSE RowLists(n - 1)
         \cup {Append(l, r) : l \in {x \in RowLists(n - 1) : Len(x) = n - 1},
                              r \in {CsvInputs.plain,
                                     [CsvInputs.plain EXCEPT !.description = Str(CsvInputs.example)],
                                     [CsvInputs.plain EXCEPT !.description = Str(<<"a", "\n", "\n", "a">>)],
                                     [k \in Range(HEADER_TO_KEY) |-> Undefined]}}

CsvCalls ==
  {[pc |-> "call", fn |-> "escapeCsvValue", value |-> v, out |-> <<>>] : v \in FieldValues}
  \cup {[pc |-> "call", fn |-> "createManifestRow", data |-> d, row |-> CsvInputs.plain,
         built |-> FALSE, out |-> <<>>] : d \in RowObjects}
  \cup {[pc |-> "call", fn |-> "generateCsv", list |-> l, out |-> <<>>] : l \in RowLists(MaxRows)}

escapeCsvValueCalled ==
  /\ call.pc = "call" /\ call.fn = "escapeCsvValue"
  /\ call' = [call EXCEPT !.pc = "done", !.out = escapeCsvValue(call.value)]
  /\ UNCHANGED textRest
  /\ UNCHANGED popupVars

(* createManifestRow called with capture data *)
createManifestRowCalled ==
  /\ call.pc = "call" /\ call.fn = "createManifestRow"
  /\ call' = [call EXCEPT !.pc = "row", !.row = createManifestRow(call.data), !.built = TRUE]
  /\ UNCHANGED textRest
  /\ UNCHANGED popupVars

(* rowToCsvLine called with the row createManifestRow built, or with the   *)
(* capture data as they are (a row object read back from storage)          *)
rowToCsvLineCalled ==
  /\ call.pc \in {"call", "row"} /\ call.fn = "createManifestRow"
  /\ LET row == IF call.pc = "row" THEN call.row ELSE call.data
     IN call' = [call EXCEPT !.pc = "done", !.row = row, !.out = rowToCsvLine(row)]
  /\ UNCHANGED textRest
  /\ UNCHANGED popupVars

generateCsvCalled ==
  /\ call.pc = "call" /\ call.fn = "generateCsv"
  /\ call' = [call EXCEPT !.pc = "done", !.out = generateCsv(call.list)]
  /\ UNCHANGED textRest
  /\ UNCHANGED popupVars

InitCsv ==
  /\ PopupInit
  /\ off = NoStitch /\ ov = NoOverlay /\ pdf = NoPdf /\ call \in CsvCalls /\ led = NoLedger

NextCsv ==
  \/ escapeCsvValueCalled
  \/ createManifestRowCalled
  \/ rowToCsvLineCalled
  \/ generateCsvCalled

SpecCsv == InitCsv /\ [][NextCsv]_vars

(* ---------------- generatePdf: the tall canvas ---------------- *)

(* fullCanvas of generatePdf: the first canvas drawn at 0, the additional  *)
(* images below it at the running yOffset; an additional image is the part *)
(* of its dataUrl, part number cssY / MAX_CHUNK_HEIGHT + 1 of the capture  *)
fullCanvas(firstPageCanvas, additionalImages) ==
  [width |-> firstPageCanvas.width,
   height |-> firstPageCanvas.height + SumHeights(additionalImages),
   draws |-> firstPageCanvas.draws \o
             [j \in DOMAIN additionalImages |->
                [src |-> additionalImages[j].cssY \div MAX_CHUNK_HEIGHT + 1,
                 y |-> firstPageCanvas.height + SumHeights(SubSeq(additionalImages, 1, j - 1)),
                 h |-> additionalImages[j].height]]]

(* ---------------- captureFullPage: the pre-scroll script ---------------- *)

MaxGrows == 2       \* times the page grows while the script runs

(* Math.max(document.documentElement.scrollHeight,                         *)
(*          document.body ? document.body.scrollHeight : 0)                *)
scrollHeightOf(page) == Max(page.doc, page.body)

(* window.scrollTo(0, y): the page scrolls as far as it can *)
scrollTo(page, vh, y) == Min(y, Max(0, page.doc - vh))

(* if (newMax > maxScroll) maxScroll = newMax *)
maxScrollCached(maxScroll, newMax) == maxScroll
maxScrollReread(maxScroll, newMax) == IF newMax > maxScroll THEN newMax ELSE maxScroll

(* Pages the script runs in: a viewport height, a document with or without *)
(* a body, and the rows a lazy loader adds when it fires                   *)
PreScrollCalls ==
  {[pc |-> "call", fn |-> "preScroll", vh |-> vh,
    page |-> [doc |-> h, body |-> IF b THEN h ELSE 0], first |-> h, lazy |-> g,
    step |-> 0, maxScroll |-> 0, y |-> 0, scrollTop |-> 0, grows |-> 0, visited |-> {},
    atExit |-> 0] :
      vh \in {300, 900}, h \in {0, 450, 900, 2000}, b \in BOOLEAN, g \in {300, 1000}}

(* the script starts: vh, step and maxScroll are read, y = 0 *)
preScrollStart ==
  /\ call.pc = "call" /\ call.fn = "preScroll"
  /\ call' = [call EXCEPT !.pc = "loop", !.step = Max(call.vh \div 2, 200),
                          !.maxScroll = scrollHeightOf(call.page), !.y = 0]
  /\ UNCHANGED textRest
  /\ UNCHANGED popupVars

(* y <= maxScroll: window.scrollTo(0, y), then the delay starts *)
preScrollStep ==
  /\ call.pc = "loop" /\ call.fn = "preScroll"
  /\ call.y <= call.maxScroll
  /\ call' = [call EXCEPT !.pc = "delay", !.scrollTop = scrollTo(call.page, call.vh, call.y),
                          !.visited = @ \cup {call.y}]
  /\ UNCHANGED textRest
  /\ UNCHANGED popupVars

(* the page's lazy loader adds rows while the script waits *)
pageGrows ==
  /\ call.pc \in {"delay", "bottom"} /\ call.fn = "preScroll"
  /\ call.grows < MaxGrows
  /\ call' = [call EXCEPT !.grows = @ + 1, !.page.doc = @ + call.lazy,
                          !.page.body = IF @ = 0 THEN 0 ELSE @ + call.lazy]
  /\ UNCHANGED textRest
  /\ UNCHANGED popupVars

(* the delay is over: the height is read again, maxScroll follows it,      *)
(* y += step                                                               *)
preScrollReread ==
  /\ call.pc = "delay" /\ call.fn = "preScroll"
  /\ call' = [call EXCEPT !.pc = "loop",
                          !.maxScroll = maxScrollReread(@, scrollHeightOf(call.page)),
                          !.y = @ + call.step]
  /\ UNCHANGED textRest
  /\ UNCHANGED popupVars

(* y > maxScroll: window.scrollTo(0, document.documentElement.scrollHeight); *)
(* atExit keeps the height the page has at this moment                     *)
preScrollBottom ==
  /\ call.pc = "loop" /\ call.fn = "preScroll"
  /\ call.y > call.maxScroll
  /\ call' = [call EXCEPT !.pc = "bottom", !.atExit = scrollHeightOf(call.page),
                          !.scrollTop = scrollTo(call.page, call.vh, call.page.doc)]
  /\ UNCHANGED textRest
  /\ UNCHANGED popupVars

(* after LAZY_SETTLE_MS: window.scrollTo(0, 0); after SCROLL_TOP_SETTLE    *)
(* the script's promise resolves                                           *)
preScrollTop ==
  /\ call.pc = "bottom" /\ call.fn = "preScroll"
  /\ call' = [call EXCEPT !.pc = "done", !.scrollTop = scrollTo(call.page, call.vh, 0)]
  /\ UNCHANGED textRest
  /\ UNCHANGED popupVars

InitPreScroll ==
  /\ PopupInit
  /\ off = NoStitch /\ ov = NoOverlay /\ pdf = NoPdf /\ call \in PreScrollCalls /\ led = NoLedger

preScrollRuns ==
  preScrollStart \/ preScrollStep \/ preScrollReread \/ preScrollBottom \/ preScrollTop

NextPreScroll ==
  \/ preScrollStart
  \/ preScrollStep
  \/ pageGrows
  \/ preScrollReread
  \/ preScrollBottom
  \/ preScrollTop

(* timers fire and the script goes on; the page is free to grow or not *)
SpecPreScroll == InitPreScroll /\ [][NextPreScroll]_vars /\ WF_vars(preScrollRuns)

(* ---------------- saveViaDownloads: the download broker ---------------- *)

MaxDeltas == 2      \* change events without a state (file name, size) per call
DownloadIds == {1, 2}
NoState == "none"

(* chrome.downloads.onChanged.removeListener(listener) *)
removeListener(c) == [c EXCEPT !.listeners = @ \ {c.downloadId}]

(* resolve() or reject() of the promise of waitForDownload; the awaiting   *)
(* saveViaDownloads goes on in the same task: finally revokes the object   *)
(* URL, then the function returns the id or throws                         *)
settle(c, outcome) ==
  [c EXCEPT !.settles = @ + 1,
            !.pc = IF @ = "wait" THEN outcome ELSE @,
            !.revoked = TRUE]

(* const listener = (delta) => { ... } of waitForDownload *)
listener(c, delta) ==
  IF delta.id # c.downloadId THEN c
  ELSE IF delta.state = "complete" THEN settle(removeListener(c), "returned")
  ELSE IF delta.state = "interrupted" THEN settle(removeListener(c), "thrown")
  ELSE c

(* waitForDownload(downloadId): the promise is created and the listener added *)
waitForDownload(c) == [c EXCEPT !.pc = "wait", !.listeners = @ \cup {c.downloadId}]

(* saveViaDownloads has called chrome.downloads.download: the broker has   *)
(* the download under an id (or refused it, lastError), another download   *)
(* of the browser may be going on                                          *)
DownloadCalls ==
  {[pc |-> "download", fn |-> "saveViaDownloads", downloadId |-> id,
    lastError |-> err,
    state |-> [d \in DownloadIds |->
                 IF d = id THEN (IF err THEN NoState ELSE "in_progress") ELSE other],
    queue |-> <<>>, listeners |-> {}, settles |-> 0, revoked |-> FALSE,
    deltas |-> 0, missed |-> FALSE] :
     id \in DownloadIds, err \in BOOLEAN, other \in {NoState, "in_progress"}}

(* the broker: a download reaches its final state and the change is sent *)
brokerFinishes(id, final) ==
  /\ call.fn = "saveViaDownloads" /\ call.state[id] = "in_progress"
  /\ call' = [call EXCEPT !.state[id] = final,
                          !.queue = Append(@, [id |-> id, state |-> final])]
  /\ UNCHANGED textRest
  /\ UNCHANGED popupVars

(* the broker: a change without a state (the file name is determined) *)
brokerReports(id) ==
  /\ call.fn = "saveViaDownloads" /\ call.state[id] = "in_progress"
  /\ call.deltas < MaxDeltas
  /\ call' = [call EXCEPT !.deltas = @ + 1,
                          !.queue = Append(@, [id |-> id, state |-> NoState])]
  /\ UNCHANGED textRest
  /\ UNCHANGED popupVars

(* the callback of chrome.downloads.download runs: with lastError the      *)
(* promise rejects and finally revokes the URL, otherwise the id resolves  *)
(* and waitForDownload(downloadId) is called                               *)
downloadCallback ==
  /\ call.fn = "saveViaDownloads" /\ call.pc = "download"
  /\ call' = IF call.lastError
             THEN [call EXCEPT !.pc = "thrown", !.revoked = TRUE]
             ELSE waitForDownload(call)
  /\ UNCHANGED textRest
  /\ UNCHANGED popupVars

(* chrome.downloads.onChanged fires in the page: the registered listener   *)
(* runs; with no listener registered the event is gone                     *)
onChanged ==
  /\ call.fn = "saveViaDownloads" /\ call.queue # <<>>
  /\ LET delta == Head(call.queue)
         c == [call EXCEPT !.queue = Tail(@)]
     IN call' = IF c.listeners = {}
                THEN [c EXCEPT !.missed = @ \/ (delta.id = c.downloadId
                                                /\ delta.state \in {"complete", "interrupted"}
                                                /\ c.pc = "download")]
                ELSE listener(c, delta)
  /\ UNCHANGED textRest
  /\ UNCHANGED popupVars

InitDownloads ==
  /\ PopupInit
  /\ off = NoStitch /\ ov = NoOverlay /\ pdf = NoPdf /\ call \in DownloadCalls /\ led = NoLedger

NextDownloads ==
  \/ \E id \in DownloadIds, final \in {"complete", "interrupted"} : brokerFinishes(id, final)
  \/ \E id \in DownloadIds : brokerReports(id)
  \/ downloadCallback
  \/ onChanged

(* the page's tasks run when they are due; the broker is free to finish    *)
(* a download or not                                                       *)
SpecDownloads ==
  InitDownloads /\ [][NextDownloads]_vars /\ WF_vars(downloadCallback) /\ WF_vars(onChanged)

(* ======================= properties ======================= *)

(* run r is between its attach and its detach *)
Holding(r) == runs[r].attachOk /\ runs[r].pc \in InTry \cup {"detach"}

(* in this step the invocation of captureFullPage of run r ends *)
Ends(r) ==
  /\ runs[r].pc \in InTry \cup {"attach", "detach"}
  /\ runs'[r].pc \in {"idle", "load"}

(* while an invocation holds the session it has not called detach; when it *)
(* has returned it has called it once                                      *)
C1_Inv ==
  \A r \in RunIds :
    /\ Holding(r) => runs[r].detaches = 0 /\ attached[runs[r].tab]
    /\ runs[r].pc = "load" => runs[r].detaches = 1

(* an invocation that attached ends only by the step of the finally block, *)
(* its first call of detach, which leaves the tab detached                 *)
C1_Step ==
  \A r \in RunIds :
    (runs[r].attachOk /\ Ends(r)) =>
       /\ runs[r].pc = "detach"
       /\ runs[r].detaches = 0
       /\ ~attached'[runs[r].tab]

(* C1: an invocation that attached leaves only through the finally block,  *)
(* which detaches the tab, and detach is called exactly once: never before *)
(* the finally block, once when the invocation has returned; on every exit *)
(* path (return, a rejected command, a rejected chunk capture).            *)
C1_DetachedOnceOnEveryExit == [](C1_Inv) /\ [][C1_Step]_vars

C1_Witness ==
  /\ lastExit \in {"threw", "chunkFailed"}
  /\ \A r \in RunIds : runs[r].pc = "idle"
  /\ \A t \in Tabs : ~attached[t]

(* C2: when an invocation that attached ends, the device-metrics override  *)
(* of its tab is cleared and the page is back at the scroll position it    *)
(* had when the capture began.                                             *)
C2_ViewportAndScrollRestored ==
  [][\A r \in RunIds :
       (runs[r].attachOk /\ Ends(r)) =>
          /\ ~override'[runs[r].tab]
          /\ scrollY'[runs[r].tab] = runs[r].scroll0]_vars

(* C3: when dbgAttach is rejected the invocation ends at once with the     *)
(* error: it has sent no command, captured no part, called no detach, and  *)
(* the page and the debugger session are left as they were.                *)
C3_AttachFailureDoesNothing ==
  [][\A r \in RunIds :
       (runs[r].pc = "attach" /\ runs'[r].pc # "attach" /\ ~runs'[r].attachOk) =>
          /\ runs'[r].pc = "idle"
          /\ lastExit' = "attachFailed"
          /\ ~runs[r].sent /\ runs[r].parts = <<>> /\ runs[r].detaches = 0
          /\ pendingCapture' = NoPending
          /\ UNCHANGED <<attached, override, scrollY>>]_vars

C3_Witness ==
  /\ lastExit = "attachFailed"
  /\ pendingCapture = NoPending
  /\ \A r \in RunIds : runs[r].pc = "idle"

(* in this step proceedWithCapture of run r stores a captureResult *)
CaptureSucceeds(r) ==
  /\ runs[r].pc \in {"detach", "load"} /\ ~runs[r].err
  /\ runs'[r].pc = "idle"
  /\ pendingCapture' # NoPending

C4_Step ==
  /\ \A r \in RunIds :
       /\ (runs[r].pc = "chunk" /\ runs'[r] # runs[r] /\ runs'[r].parts = runs[r].parts)
             => runs'[r].pc = "detach" /\ runs'[r].err
       /\ (runs[r].pc = "detach" /\ runs[r].chunkErr /\ runs'[r] # runs[r])
             => /\ runs'[r].pc = "idle"
                /\ lastExit' = "chunkFailed"
                /\ ~attached'[runs[r].tab]
                /\ pendingCapture' = NoPending
       /\ (runs[r].pc = "detach" /\ ~runs[r].err)
             => SumHeights(runs[r].parts) = runs[r].cssHeight
  /\ (save.pc = "idle" /\ save'.pc # "idle") => SaveGuard
  /\ (~SaveGuard /\ SaveGuard') => \E r \in RunIds : CaptureSucceeds(r)
  /\ (files' # files \/ rows' > rows) => save.pc # "idle"

(* C4: a rejected chunk capture aborts the loop; the invocation ends with  *)
(* the error after releasing the handle, only a complete list of parts is  *)
(* ever returned, the catch block discards the pending capture, and Save   *)
(* does nothing (no file, no manifest row) until a capture has succeeded.  *)
C4_ChunkFailureAbortsAndDiscards == [][C4_Step]_vars

C4_Witness ==
  /\ lastExit = "chunkFailed"
  /\ pendingCapture = NoPending
  /\ \A r \in RunIds : runs[r].pc = "idle"
  /\ \A t \in Tabs : ~attached[t]
  /\ save.pc = "idle" /\ files = 0 /\ rows = 0

PartsContiguous(parts) ==
  \A i \in 1..Len(parts) :
    /\ parts[i].height >= 1 /\ parts[i].height <= MAX_CHUNK_HEIGHT
    /\ parts[i].cssY = IF i = 1 THEN 0 ELSE parts[i - 1].cssY + parts[i - 1].height
    /\ i > 1 => parts[i].cssY > parts[i - 1].cssY

LoopOver(run) == run.pc \in {"clear", "load"} \/ (run.pc = "detach" /\ ~run.err)

(* C5: the parts captured so far are contiguous from offset 0 in strictly  *)
(* increasing order, each 1..4000 tall, and once the loop is over their    *)
(* heights sum to the measured height H > 0.                               *)
C5_PartsPartitionHeight ==
  \A r \in RunIds :
    /\ PartsContiguous(runs[r].parts)
    /\ (LoopOver(runs[r]) /\ runs[r].cssHeight > 0)
          => SumHeights(runs[r].parts) = runs[r].cssHeight

C5_Witness ==
  \E r \in RunIds :
    /\ runs[r].pc = "load"
    /\ Len(runs[r].parts) >= 3
    /\ runs[r].parts[Len(runs[r].parts)].height < MAX_CHUNK_HEIGHT

(* C6: an invocation that is about to return or has returned holds at      *)
(* least one part.                                                         *)
C6_NeverReturnsEmpty ==
  \A r \in RunIds : LoopOver(runs[r]) => runs[r].parts # <<>>

(* C7: at most one invocation of captureFullPage is between its attach and *)
(* its detach for a tab, and that invocation holds the tab's session.      *)
C7_OneHolderPerTab ==
  /\ \A r \in RunIds : Holding(r) => attached[runs[r].tab]
  /\ \A r, q \in RunIds :
       (Holding(r) /\ Holding(q) /\ runs[r].tab = runs[q].tab) => r = q

C7_Witness ==
  \E r, q \in RunIds :
    /\ r # q /\ Holding(r)
    /\ runs[q].pc = "attach" /\ runs[q].tab = runs[r].tab

(* the pre-overlay surface of a finished capture: the canvas without the   *)
(* header band drawOverlay put on top                                      *)
HasResult == pendingCapture # NoPending /\ pendingCapture.captureResult # NoResult
Captured == pendingCapture.captureResult.parts
SurfaceHeight == stitchCanvas.height - stitchCanvas.header
PartDraws == [k \in 1..(Len(stitchCanvas.draws) - 1) |->
                [stitchCanvas.draws[k + 1] EXCEPT !.y = @ - stitchCanvas.header]]

(* C8: parts of total height <= 16384 are all on the surface, part i at    *)
(* the sum of the heights before it, the surface is as tall as their sum,  *)
(* and no part is handed on to the paginator.                              *)
C8_StitchLossless ==
  (HasResult /\ SumHeights(Captured) <= MAX_CANVAS_HEIGHT) =>
     /\ SurfaceHeight = SumHeights(Captured)
     /\ PartDraws = [i \in 1..Len(Captured) |->
                       [src |-> i, y |-> SumHeights(SubSeq(Captured, 1, i - 1)),
                        h |-> Captured[i].height]]
     /\ pendingCapture.captureResult.additional = <<>>

BeyondCap(parts) == SelectSeq(parts, LAMBDA p : p.cssY >= MAX_CANVAS_HEIGHT)

C10_OverflowingSliceCropped ==
  off.pc \in {"load", "done"} =>
    /\ off.canvasHeight = Min(CeilDiv(off.fullHeight * off.ratio[1], off.ratio[2]), MAX_CANVAS_HEIGHT)
    /\ \A k \in 1..Len(off.draws) :
         LET d == off.draws[k]
             dy == RoundDiv(sliceY(off, k - 1) * off.ratio[1], off.ratio[2])
             remainingHeight == off.canvasHeight - dy
         IN /\ d.dy = dy
            /\ dy + slicePixelHeight(off) > off.canvasHeight =>
                 /\ remainingHeight >= 0
                 /\ d.h = remainingHeight
                 /\ d.sy = slicePixelHeight(off) - remainingHeight

(* C11: the stitched surface canvas is never taller than 16384 px, the     *)
(* header band of drawOverlay included.                                    *)
C11_SurfaceWithinLimit == stitchCanvas.height <= MAX_CANVAS_HEIGHT

(* a metadata field that is populated: defined, and not the empty string   *)
Populated(v) == v.k = "number" \/ (v.k = "string" /\ v.s # <<>>)
PopulatedFields(metadata) == SelectSeq(FieldOrder, LAMBDA f : Populated(metadata[f]))
PartHeights(parts) == [i \in 1..Len(parts) |-> parts[i].height]

(* C12: drawOverlay grows the surface by headerHeight = numWrappedLines *  *)
(* lineHeight + 2 * padding + separatorThickness (constants scaled by the  *)
(* pixel ratio, 1 when it is not given), keeps the width and redraws the   *)
(* content headerHeight rows lower; parts 4000, 4000, 1200 stitch to 9200  *)
(* rows with no residual part, and 4 populated unwrapped fields at ratio 1 *)
(* add 4 * 19 + 2 * 16 + 1 rows.                                           *)
C12_OverlayGrowsByHeader ==
  ov.pc = "drawn" =>
    LET dpr == IF ov.metadata.devicePixelRatio = Undefined
               THEN 1 ELSE ov.metadata.devicePixelRatio.n
        numWrappedLines == Len(ov.out.lineData)
        hh == numWrappedLines * (OVERLAY_LINE_HEIGHT * dpr)
                + 2 * (OVERLAY_PADDING * dpr) + Max(1, dpr)
    IN /\ ov.out.height = ov.canvas.height + hh
       /\ ov.out.width = ov.canvas.width
       /\ ov.out.header = hh
       /\ ov.out.draws = <<[src |-> 0, y |-> 0, h |-> hh]>>
                           \o [k \in 1..Len(ov.canvas.draws) |->
                                 [ov.canvas.draws[k] EXCEPT !.y = @ + hh]]
       /\ PartHeights(ov.canvas.parts) = <<4000, 4000, 1200>> =>
             /\ ov.canvas.height = 9200
             /\ additionalParts(ov.canvas.parts) = <<>>
       /\ (dpr = 1 /\ Len(PopulatedFields(ov.metadata)) = 4 /\ numWrappedLines = 4) =>
             ov.out.height - ov.canvas.height = 4 * 19 + 2 * 16 + 1

C12_Witness ==
  /\ ov.pc = "drawn"
  /\ PartHeights(ov.canvas.parts) = <<4000, 4000, 1200>>
  /\ ov.metadata.devicePixelRatio = Undefined
  /\ Len(PopulatedFields(ov.metadata)) = 4 /\ Len(ov.out.lineData) = 4
  /\ ov.out.height = 9309

LabelledLines(lineData) == SelectSeq(lineData, LAMBDA l : l.label # <<>>)

(* C13: the labelled lines of the header are the labels of the populated   *)
(* fields in the fixed field order, one per populated field; every block   *)
(* starts with its labelled line, and no line is empty.                    *)
C13_HeaderLinesInFieldOrder ==
  ov.pc = "drawn" =>
    LET lineData == ov.out.lineData
        present == PopulatedFields(ov.metadata)
        labelled == LabelledLines(lineData)
    IN /\ Len(labelled) = Len(present)
       /\ \A k \in 1..Len(labelled) :
            labelled[k].label = fieldLabel(ov.metadata, present[k])
       /\ lineData # <<>> => lineData[1].label # <<>>
       /\ \A k \in 1..Len(lineData) : lineData[k].value # <<>>
       /\ present # <<>> => lineData # <<>>

C13_Witness ==
  /\ ov.pc = "drawn"
  /\ Len(PopulatedFields(ov.metadata)) = 7
  /\ Len(ov.out.lineData) > 7
  /\ \E k \in 1..Len(ov.out.lineData) : ov.out.lineData[k].label = <<>>

(* in this step drawOverlay is applied to the same surface with one more   *)
(* field populated                                                         *)
OneMorePopulated ==
  /\ ov.pc = "drawn" /\ ov'.pc = "drawn"
  /\ ov'.canvas = ov.canvas
  /\ \E f \in {FieldOrder[k] : k \in 1..Len(FieldOrder)} :
       /\ ~Populated(ov.metadata[f]) /\ Populated(ov'.metadata[f])
       /\ \A g \in MetadataFields \ {f} : ov'.metadata[g] = ov.metadata[g]

(* C14: populating one more metadata field, the surface, the pixel ratio   *)
(* and the other fields unchanged, never makes the header lower.           *)
C14_HeaderHeightMonotone ==
  [][OneMorePopulated => ov'.out.header >= ov.out.header]_vars

C14_Witness ==
  /\ ov.pc = "drawn"
  /\ Len(PopulatedFields(ov.metadata)) = 7
  /\ ov.canvas.width = 100
  /\ ov.out.header > 7 * OVERLAY_LINE_HEIGHT + 2 * OVERLAY_PADDING + 1

SameSurface(c, d) == [c EXCEPT !.font = 0] = [d EXCEPT !.font = 0]

(* C15: two runs of drawOverlay on equal surfaces with equal metadata give *)
(* equal outputs, whatever state the canvas context was left in.           *)
C15_OverlayDeterministic ==
  [][(ov.pc = "drawn" /\ ov'.pc = "drawn" /\ ov'.metadata = ov.metadata
        /\ SameSurface(ov'.canvas, ov.canvas)) => ov'.out = ov.out]_vars

C15_Witness ==
  /\ ov.pc = "drawn"
  /\ ov.canvas.font # ov.out.font
  /\ ov.canvas.width = 100
  /\ Len(ov.out.lineData) > Len(PopulatedFields(ov.metadata))

(* C16: drawOverlay applied to the same surface with two metadata records  *)
(* that differ in a field gives two different outputs.                     *)
C16_DifferentMetadataDifferentHeader ==
  [][(ov.pc = "drawn" /\ ov'.pc = "drawn" /\ ov'.canvas = ov.canvas
        /\ ov'.metadata # ov.metadata) => ov'.out # ov.out]_vars

RECURSIVE SumSeq(_)
SumSeq(q) == IF q = <<>> THEN 0 ELSE Head(q) + SumSeq(Tail(q))

(* C17: a composite H rows tall and W wide is cut into ceil(H / P) pages,  *)
(* P = round(W * 297 / 210); page i is the region [i P, min((i + 1) P, H)) *)
(* so the regions are contiguous, only the last may be shorter than P, and *)
(* their heights sum to H.                                                 *)
C17_PagesPartitionComposite ==
  pdf.pc = "done" =>
    LET H == pdf.first.height + SumSeq(pdf.more)
        W == pdf.first.width
        P == RoundDiv(W * 297, 210)
        n == Len(pdf.pages)
    IN /\ pdf.fullHeight = H
       /\ n = CeilDiv(H, P)
       /\ \A i \in 0..(n - 1) :
            /\ pdf.pages[i + 1].srcY = i * P
            /\ pdf.pages[i + 1].srcY + pdf.pages[i + 1].srcH = Min((i + 1) * P, H)
            /\ pdf.pages[i + 1].srcH >= 1
            /\ i < n - 1 => pdf.pages[i + 1].srcH = P
       /\ SumSeq([k \in 1..n |-> pdf.pages[k].srcH]) = H

C17_Witness ==
  /\ pdf.pc = "done"
  /\ Len(pdf.more) = MaxAdditional
  /\ Len(pdf.pages) >= 3
  /\ pdf.pages[Len(pdf.pages)].srcH < pageHeightPx(pdf.first.width)

(* in this step the catch block of handleSaveCapture reports that          *)
(* generatePdf failed / that the write to the sink failed                  *)
PdfFailed ==
  save.pc = "pdf" /\ ui'.status = [message |-> "PDF generation failed", type |-> "error"]
WriteFailed ==
  save.pc = "write" /\ ui'.status = [message |-> "write failed", type |-> "error"]
NothingRecorded == UNCHANGED <<files, rows, stepCounter, history>>

(* C18: when generatePdf fails during Save, no document is written, no     *)
(* manifest row is appended, the step counter and the stored history, page *)
(* names and last capture are unchanged, and the pending capture and its   *)
(* stitched surface are kept, so that Save can be clicked again.           *)
C18_PdfFailureKeepsCapture ==
  [][/\ PdfFailed =>
          /\ NothingRecorded
          /\ UNCHANGED <<pendingCapture, stitchCanvas, isDuplicate>>
          /\ save' = IdleSave
          /\ SaveGuard'
     /\ (save.pc = "pdf" /\ save'.pc \notin {"pdf", "write"}) => PdfFailed]_vars

C18_Witness ==
  /\ ui.status.message = "PDF generation failed"
  /\ save = IdleSave /\ SaveGuard
  /\ files = 0 /\ rows = 0 /\ stepCounter = 1 /\ history = {}

C20_SaveWritesImageAndDocument ==
  [][(save.pc = "fin" /\ save'.pc = "idle") =>
       /\ save.written = {"png", "pdf"}
       /\ save.row.pngFilename # "" /\ save.row.pdfFilename # ""]_vars

(* C21: whenever no handleSaveCapture is in flight, the documents in the   *)
(* sink, the manifest rows and the increments of the step counter are each *)
(* as many as the captures that have been saved in the session: one of     *)
(* each per capture, no row lost, whatever the order of the Save clicks    *)
(* and the awaits of the invocations.                                      *)
C21_OneOfEachPerSavedCapture ==
  (led # NoLedger /\ NoSave) =>
     /\ Len(led.sink) = Cardinality(led.saved)
     /\ Len(led.manifest) = Cardinality(led.saved)
     /\ led.stepCounter = 1 + Cardinality(led.saved)

(* the last row of a manifest with an output file name, 0 when none has it *)
LastIndexOf(list, pdfFilename) ==
  IF \E j \in DOMAIN list : list[j].pdfFilename = pdfFilename
  THEN CHOOSE j \in DOMAIN list :
         /\ list[j].pdfFilename = pdfFilename
         /\ \A k \in (j + 1)..Len(list) : list[k].pdfFilename # pdfFilename
  ELSE 0

(* a step inside one session: none is started or ended by it *)
WithinSession == led.session # null /\ led'.session # null /\ led'.sessions = led.sessions

(* C22: within a session every step leaves the rows of the manifest as     *)
(* they are, or appends one row behind them; only a submitted edit form    *)
(* changes a row, the most recent one that carries the file name of the    *)
(* last capture, and no other.                                             *)
C22_AppendOnlyButEditLast ==
  [][WithinSession =>
       IF led'.edits = led.edits
       THEN \/ led'.manifest = led.manifest
            \/ /\ Len(led'.manifest) = Len(led.manifest) + 1
               /\ SubSeq(led'.manifest, 1, Len(led.manifest)) = led.manifest
       ELSE /\ Len(led'.manifest) = Len(led.manifest)
            /\ \A j \in DOMAIN led.manifest :
                 j # LastIndexOf(led.manifest, led.lastCapture.pdfFilename)
                   => led'.manifest[j] = led.manifest[j]]_vars

(* the pieces of a string between the occurrences of a character *)
RECURSIVE PiecesBetween(_, _)
PiecesBetween(s, c) ==
  IF \A i \in DOMAIN s : s[i] # c THEN <<s>>
  ELSE LET i == CHOOSE k \in DOMAIN s : s[k] = c /\ \A m \in 1..(k - 1) : s[m] # c
       IN <<SubSeq(s, 1, i - 1)>> \o PiecesBetween(SubSeq(s, i + 1, Len(s)), c)

(* the number a string of decimal digits denotes *)
RECURSIVE NatOfString(_)
NatOfString(s) ==
  IF s = <<>> THEN 0
  ELSE 10 * NatOfString(SubSeq(s, 1, Len(s) - 1))
         + (CHOOSE d \in 0..9 : StringOfNat(d) = <<s[Len(s)]>>)

(* the file name of the README: step 7 of a flow, "Checkout Page!",        *)
(* logged in, v3.12.0, 2026-02-09, png                                     *)
ReadmeFilename ==
  <<"S", "t", "e", "p", "0", "7", "_", "C", "h", "e", "c", "k", "o", "u", "t", "P", "a",
    "g", "e", "_", "L", "o", "g", "g", "e", "d", "I", "n", "_", "e", "n", "_", "v", "3",
    ".", "1", "2", ".", "0", "_", "2", "0", "2", "6", "-", "0", "2", "-", "0", "9", ".",
    "p", "n", "g">>

IsReadmeCall ==
  /\ call.fn = "generateFilename"
  /\ call.mode = NameParts.flow /\ call.stepOrIndex = 7
  /\ call.pageName = <<"C", "h", "e", "c", "k", "o", "u", "t", " ", "P", "a", "g", "e", "!">>
  /\ call.state = LOGGED_IN /\ call.version = <<"v", "3", ".", "1", "2", ".", "0">>
  /\ call.ext = <<"p", "n", "g">>

(* C23: the name generateFilename returns, cut at its underscores, is the  *)
(* prefix Step (flow mode) or LP (any other mode) followed by the step or  *)
(* index in at least two digits, zero-padded and never cut, then the       *)
(* sanitized page name, LoggedIn or LoggedOut, en, the version, and the    *)
(* date with the extension; a second call with the same arguments returns  *)
(* the same name; the README's arguments give the README's name.           *)
C23_FilenamePattern ==
  (call.pc \in {"done", "twice"} /\ call.fn = "generateFilename") =>
     LET piece == PiecesBetween(call.out, "_")
         prefix == IF call.mode = NameParts.flow THEN NameParts.Step ELSE NameParts.LP
         number == SubSeq(piece[1], Len(prefix) + 1, Len(piece[1]))
     IN /\ Len(piece) = 6
        /\ SubSeq(piece[1], 1, Len(prefix)) = prefix
        /\ Len(number) = (IF call.stepOrIndex < 100 THEN 2 ELSE Len(StringOfNat(call.stepOrIndex)))
        /\ \A i \in DOMAIN number : number[i] \in Chars.digits
        /\ NatOfString(number) = call.stepOrIndex
        /\ piece[2] = sanitize(call.pageName)
        /\ piece[3] = (IF call.state = LOGGED_IN THEN NameParts.LoggedIn ELSE NameParts.LoggedOut)
        /\ piece[4] = <<"e", "n">>
        /\ piece[5] = call.version
        /\ piece[6] = call.date \o <<".">> \o call.ext
        /\ call.pc = "twice" => call.again = call.out
        /\ IsReadmeCall => call.out = ReadmeFilename

C23_Witness ==
  /\ call.pc = "twice" /\ IsReadmeCall
  /\ call.out = ReadmeFilename

AsciiLetters == Range(Chars.lower) \cup Range(Chars.upper)

(* the positions of a name that hold a letter or a digit, in order *)
RECURSIVE AlnumPositions(_, _)
AlnumPositions(name, i) ==
  IF i > Len(name) THEN <<>>
  ELSE IF name[i] \in AsciiLetters \cup Chars.digits THEN <<i>> \o AlnumPositions(name, i + 1)
  ELSE AlnumPositions(name, i + 1)

(* position p opens a token: of the characters before it that are not      *)
(* deleted (letters, digits, white space, hyphens) the nearest is white    *)
(* space or a hyphen, or there is none                                     *)
OpensToken(name, p) ==
  LET before == {q \in 1..(p - 1) : name[q] \in AsciiLetters \cup Chars.digits \cup Chars.space \cup {"-"}}
  IN before = {} \/ name[CHOOSE q \in before : \A r \in before : r <= q] \in Chars.space \cup {"-"}

(* C24: sanitize returns ASCII letters and digits only: the letters and    *)
(* digits of its input in their order, every other character gone, the     *)
(* first character of each token (a maximal run between white space or     *)
(* hyphens, deleted characters not counting) in upper case and the others  *)
(* in lower case.                                                          *)
C24_SanitizeAlphanumericTitleCase ==
  (call.pc = "done" /\ call.fn = "sanitize") =>
     LET at == AlnumPositions(call.name, 1) IN
     /\ \A k \in DOMAIN call.out : call.out[k] \in AsciiLetters \cup Chars.digits
     /\ Len(call.out) = Len(at)
     /\ \A k \in DOMAIN at :
          call.out[k] = IF OpensToken(call.name, at[k]) THEN toUpperCase(call.name[at[k]])
                        ELSE toLowerCase(call.name[at[k]])

C24_Witness ==
  /\ call.pc = "done" /\ call.fn = "sanitize"
  /\ call.name = <<"f", "A", "Q", "-", "2">>
  /\ call.out = <<"F", "a", "q", "2">>

(* C25: the folder generateFullPath returns is Exemplars, then the date    *)
(* and the version joined by an underscore, then Flow or Set and the       *)
(* sanitized name joined by an underscore; the full path is that folder,   *)
(* one slash, and the name generateFilename gives for the same session, so *)
(* the version of the folder segment is the version of the file name.      *)
C25_FolderAndFullPath ==
  (call.pc = "done" /\ call.fn = "generateFullPath") =>
     LET s == call.session
         folder == PiecesBetween(call.out.folder, "/")
         full == PiecesBetween(call.out.fullPath, "/")
         name == PiecesBetween(call.out.filename, "_")
     IN /\ Len(folder) = 3
        /\ folder[1] = <<"E", "x", "e", "m", "p", "l", "a", "r", "s">>
        /\ folder[2] = s.date \o <<"_">> \o s.version
        /\ folder[3] = (IF s.mode = NameParts.flow THEN NameParts.Flow ELSE NameParts.Set)
                         \o <<"_">> \o sanitize(s.flowOrSetName)
        /\ call.out.filename = generateFilename(s.mode, call.stepOrIndex, call.pageName,
                                                s.loginState, s.version, s.date, call.ext)
        /\ Len(full) = 4
        /\ SubSeq(full, 1, 3) = folder /\ full[4] = call.out.filename
        /\ folder[2] = s.date \o <<"_">> \o name[5]

C25_Witness ==
  /\ call.pc = "done" /\ call.fn = "generateFullPath"
  /\ call.session.version = <<"v", "3", ".", "1", "2", ".", "0">>
  /\ call.session.mode = NameParts.set
  /\ call.out.folder = <<"E", "x", "e", "m", "p", "l", "a", "r", "s", "/", "2", "0", "2", "6",
                         "-", "0", "2", "-", "0", "9", "_", "v", "3", ".", "1", "2", ".", "0",
                         "/", "S", "e", "t", "_", "L", "p">>

IsPrefix(p, s) == Len(p) <= Len(s) /\ SubSeq(s, 1, Len(p)) = p

(* C26: every manifest file exported at End Session is named with the date *)
(* and the version of each capture it lists, and lies in a folder into     *)
(* which a capture document was written.                                   *)
C26_ManifestBesideItsCaptures ==
  led # NoLedger =>
    \A n \in DOMAIN led.exports :
      LET e == led.exports[n] IN
      /\ \A j \in DOMAIN e.rows :
           e.filename = manifestFilename(LedgerInputs.date, e.rows[j].version)
      /\ \E k \in DOMAIN led.sink : IsPrefix(e.folder \o <<"/">>, led.sink[k])
           /\ Len(PiecesBetween(led.sink[k], "/")) = Len(PiecesBetween(e.folder, "/")) + 1


(* ---- reading comma-separated text back (RFC 4180) ---- *)

(* the pieces of s between the occurrences of sep that lie outside double  *)
(* quotes; a double quote opens or closes a quoted stretch                 *)
SplitOutside(s, sep) ==
  LET outside(i) == Cardinality({j \in 1..(i - 1) : s[j] = "\""}) % 2 = 0
      cuts == {i \in DOMAIN s : s[i] = sep /\ outside(i)}
      cut(k) == IF k = 0 THEN 0
                ELSE IF k = Cardinality(cuts) + 1 THEN Len(s) + 1
                ELSE CHOOSE i \in cuts : Cardinality({j \in cuts : j < i}) = k - 1
  IN [k \in 1..(Cardinality(cuts) + 1) |-> SubSeq(s, cut(k - 1) + 1, cut(k) - 1)]

IsQuoted(raw) == Len(raw) >= 2 /\ raw[1] = "\"" /\ raw[Len(raw)] = "\""

(* the value of a field: a quoted field without its quotes, each pair of   *)
(* double quotes inside read as one, a lone one dropped                    *)
RECURSIVE Undouble(_)
Undouble(s) ==
  IF s = <<>> THEN <<>>
  ELSE IF Head(s) = "\"" THEN
         IF Len(s) >= 2 /\ s[2] = "\"" THEN <<"\"">> \o Undouble(Tail(Tail(s)))
         ELSE Undouble(Tail(s))
  ELSE <<Head(s)>> \o Undouble(Tail(s))

FieldValue(raw) == IF IsQuoted(raw) THEN Undouble(SubSeq(raw, 2, Len(raw) - 1)) ELSE raw

(* the fields of one record *)
ParseRecord(line) ==
  LET raws == SplitOutside(line, ",")
  IN [f \in DOMAIN raws |-> FieldValue(raws[f])]

(* a text that a reader takes as one record: no line feed and no carriage  *)
(* return outside quotes                                                   *)
IsOneRecord(text) == Len(SplitOutside(text, "\n")) = 1 /\ Len(SplitOutside(text, "\r")) = 1

(* String(value ?? '') as the claim states it: missing values are empty *)
TextOf(value) == IF value = Undefined THEN <<>> ELSE StringOf(value)

CountOf(s, c) == Cardinality({i \in DOMAIN s : s[i] = c})

(* C27: a row is serialized as its fifteen fields in the order Timestamp,  *)
(* Version, Mode, FlowOrSetName, StepOrIndex, PageName, LoginState,        *)
(* Language, Hostname, FullURL, URLPath, PNGFilename, PDFFilename,         *)
(* Description, Duplicate, joined by commas; a field is wrapped in double  *)
(* quotes exactly when its value contains a comma, a double quote, a line  *)
(* feed or a carriage return, and then every double quote inside is        *)
(* doubled; a missing value is the empty field; the Duplicate field of a   *)
(* row built by createManifestRow is the literal true or false; the        *)
(* description Refund, 30 days "guaranteed" is written                     *)
(* "Refund, 30 days ""guaranteed""".                                       *)
C27_RowSerialization ==
  /\ (call.pc = "done" /\ call.fn = "createManifestRow") =>
       LET raws == SplitOutside(call.out, ",")
           order == <<"timestamp", "version", "mode", "flowOrSetName", "stepOrIndex",
                      "pageName", "loginState", "language", "hostname", "fullURL",
                      "urlPath", "pngFilename", "pdfFilename", "description", "duplicate">>
       IN /\ Len(raws) = 15
          /\ \A i \in 1..15 :
               LET text == TextOf(call.row[order[i]])
                   special == \E j \in DOMAIN text : text[j] \in {",", "\"", "\n", "\r"}
               IN /\ IsQuoted(raws[i]) <=> special
                  /\ ~special => raws[i] = text
                  /\ special =>
                       /\ Len(raws[i]) = Len(text) + CountOf(text, "\"") + 2
                       /\ FieldValue(raws[i]) = text
          /\ call.built =>
               call.row.duplicate \in {Str(<<"t", "r", "u", "e">>), Str(<<"f", "a", "l", "s", "e">>)}
  /\ (call.pc = "done" /\ call.fn = "escapeCsvValue") =>
       /\ call.value = Undefined => call.out = <<>>
       /\ call.value = Str(CsvInputs.example) =>
            call.out = <<"\"", "R", "e", "f", "u", "n", "d", ",", " ", "3", "0", " ", "d", "a",
                         "y", "s", " ", "\"", "\"", "g", "u", "a", "r", "a", "n", "t", "e", "e",
                         "d", "\"", "\"", "\"">>

(* a row built by createManifestRow from data whose description holds a    *)
(* carriage return has been serialized *)
C27_Witness ==
  /\ call.pc = "done" /\ call.fn = "createManifestRow" /\ call.built
  /\ call.row.description.s = <<"a", "\r", "\"">>
  /\ call.row.duplicate = Str(<<"t", "r", "u", "e">>)

(* C28: a standard CSV reader gets back from an escaped field exactly the  *)
(* original string, and from a serialized row its fifteen values, with     *)
(* commas, line breaks and double quotes in them intact.                   *)
C28_EscapeRoundTrip ==
  /\ (call.pc = "done" /\ call.fn = "escapeCsvValue") =>
       IsOneRecord(call.out) /\ ParseRecord(call.out) = <<TextOf(call.value)>>
  /\ (call.pc = "done" /\ call.fn = "createManifestRow") =>
       /\ IsOneRecord(call.out)
       /\ ParseRecord(call.out) = [i \in 1..15 |-> TextOf(call.row[HEADER_TO_KEY[i]])]

(* a value made of a comma, a double quote and a line feed has been escaped *)
C28_Witness ==
  /\ call.pc = "done" /\ call.fn = "escapeCsvValue"
  /\ call.value = Str(<<",", "\"", "\n">>)

(* C29: for a list of n >= 0 rows generateCsv returns exactly n + 1 lines, *)
(* each ended by one line feed: first the header line of the fifteen       *)
(* column names, then one line per row in list order; no line is empty.    *)
C29_HeaderPlusOneLinePerRow ==
  (call.pc = "done" /\ call.fn = "generateCsv") =>
    LET lines == SplitOutside(call.out, "\n")
        n == Len(call.list)
    IN /\ Len(lines) = n + 2 /\ lines[n + 2] = <<>>
       /\ \A k \in 1..(n + 1) : lines[k] # <<>>
       /\ Len(SplitOutside(lines[1], ",")) = 15
       /\ lines[1] = join(CSV_HEADERS, <<",">>)
       /\ \A k \in 1..n : lines[k + 1] = rowToCsvLine(call.list[k])


(* the login state a capture taken now is saved with: sets are always      *)
(* logged out, flows use the toggle                                        *)
CaptureState ==
  IF led.session # null /\ led.session.mode = NameParts.set THEN LOGGED_OUT
  ELSE led.currentCaptureState

SameCombinationSaved ==
  getUrlKey(led.pendingCapture.urlPath, CaptureState) \in led.captureHistory

(* handleCapture raises the warning only for a combination saved before *)
C30_WarningOnlyForSavedCombination ==
  (led # NoLedger /\ led' # NoLedger /\ ~led.warning /\ led'.warning) =>
    getUrlKey(led'.pendingCapture.urlPath,
              IF led'.session.mode = NameParts.set THEN LOGGED_OUT
              ELSE led'.currentCaptureState) \in led'.captureHistory

(* a capture on its way to the manifest is marked duplicate exactly when   *)
(* its combination was saved before                                        *)
C30_MarkedIffSavedCombination ==
  (led # NoLedger /\ led.pendingCapture # null /\ led.session # null /\ NoSave
     /\ (led.prompt \/ led.description))
    => (led.isDuplicate <=> SameCombinationSaved)

(* the mark is raised by the warning's proceed button only, and a row is   *)
(* written with the mark the capture has                                   *)
C30_FlagOnlyAfterProceed ==
  (led # NoLedger /\ led' # NoLedger) =>
    /\ (led'.isDuplicate /\ ~led.isDuplicate) => (led.warning /\ ~led'.warning)
    /\ Len(led'.manifest) > Len(led.manifest) =>
         (led'.manifest[Len(led'.manifest)].duplicate = "true" <=> led.isDuplicate)

(* C30: handleCapture shows the duplicate warning if and only if the same  *)
(* URL path + login state combination was saved before in the session: a   *)
(* path saved only under the other login state raises no warning, and a    *)
(* row is flagged duplicate only when the user proceeded past the warning. *)
C30_DuplicateWarningSameCombination ==
  /\ []C30_MarkedIffSavedCombination
  /\ [][C30_WarningOnlyForSavedCombination /\ C30_FlagOnlyAfterProceed]_vars


(* End Session ran: the capture view gave way to the setup view *)
EndSessionStep == led # NoLedger /\ led' # NoLedger /\ led.view = "capture" /\ led'.view = "setup"

(* C31: when the manifest export of End Session fails (nothing reaches the *)
(* sink although rows are stored), the failure is shown to the user as an  *)
(* error and the stored manifest rows are kept.                            *)
C31_ExportFailureSurfacedRowsKept ==
  [][(EndSessionStep /\ led.manifest # <<>> /\ led'.exports = led.exports)
       => (led'.status.type = "error" /\ led'.manifest = led.manifest)]_vars


(* the composite generatePdf has built for the capture being saved *)
Composite == fullCanvas(stitchCanvas, pendingCapture.captureResult.additional)
PdfBuilt == HasResult /\ save.pc = "write"

(* C32: the composite of the document holds the header band and then      *)
(* every captured part exactly once, in capture order, each directly below *)
(* the one before, whether all parts were stitched or only the first: its  *)
(* height is the header height plus the sum of the part heights.           *)
C32_CompositeHoldsEveryPartOnce ==
  PdfBuilt =>
    /\ Composite.height = stitchCanvas.header + SumHeights(Captured)
    /\ Composite.draws =
         <<[src |-> 0, y |-> 0, h |-> stitchCanvas.header]>> \o
         [i \in 1..Len(Captured) |->
            [src |-> i, y |-> stitchCanvas.header + SumHeights(SubSeq(Captured, 1, i - 1)),
             h |-> Captured[i].height]]


(* the lines wrapText returned for the k-th shown field: from the k-th     *)
(* line that carries a label up to the next one                            *)
LabelPositions(lineData) == {i \in DOMAIN lineData : lineData[i].label # <<>>}
LabelPosition(lineData, k) ==
  IF k > Cardinality(LabelPositions(lineData)) THEN Len(lineData) + 1
  ELSE CHOOSE i \in LabelPositions(lineData) :
         Cardinality({j \in LabelPositions(lineData) : j < i}) = k - 1
WrappedBlock(lineData, k) ==
  SubSeq(lineData, LabelPosition(lineData, k), LabelPosition(lineData, k + 1) - 1)

RECURSIVE ConcatValues(_)
ConcatValues(block) ==
  IF block = <<>> THEN <<>> ELSE Head(block).value \o ConcatValues(Tail(block))

(* the width of one character and the width left for text, as drawOverlay  *)
(* lays the header out                                                     *)
CharWidth == (OVERLAY_FONT_SIZE * pixelRatio(ov.metadata) * 11) \div 20
TextWidth == ov.canvas.width - 2 * OVERLAY_PADDING * pixelRatio(ov.metadata)

(* the block keeps the value, labels its first line only and has no empty  *)
(* line                                                                    *)
WrapKeeps(block, label, value) ==
  /\ block # <<>>
  /\ ConcatValues(block) = value
  /\ \A i \in DOMAIN block :
       /\ block[i].label = (IF i = 1 THEN label ELSE <<>>)
       /\ block[i].value # <<>>

(* every line of the block fits the width available to it and is full *)
WrapFits(block, label) ==
  \A i \in DOMAIN block :
    LET available == IF i = 1 THEN TextWidth - Len(label) * CharWidth ELSE TextWidth
    IN /\ Len(block[i].value) * CharWidth <= available
       /\ i < Len(block) => (Len(block[i].value) + 1) * CharWidth > available

(* the label leaves room for a character on the first line *)
LabelLeavesRoom(label) == TextWidth - Len(label) * CharWidth >= CharWidth

OffsetsUpTo(step, h) == {k * step : k \in 0..(h \div step)}

(* the loop of the pre-scroll script is over *)
LoopLeft == call.fn = "preScroll" /\ call.pc \in {"bottom", "done"}

(* when the loop is left its bound is the height the page has grown to,    *)
(* and every half-viewport offset up to it was scrolled to                 *)
C34_BoundFollowsGrowth ==
  LoopLeft =>
    /\ call.maxScroll = call.atExit
    /\ call.step = Max(call.vh \div 2, 200)
    /\ call.visited = OffsetsUpTo(call.step, call.atExit)

(* leaving the loop scrolls to the bottom, the next step to the top *)
C34_BottomThenTop ==
  (call.fn = "preScroll" /\ call'.fn = "preScroll") =>
    /\ (call.pc = "loop" /\ call'.pc = "bottom") =>
         call'.scrollTop = Max(0, call.page.doc - call.vh)
    /\ call'.pc = "done" => (call.pc = "bottom" /\ call'.scrollTop = 0)

C35_ResultOnItsOwnCapture ==
  HasResult => (pendingCapture.pageName /\ pendingCapture.loginState)


(* C36: a capture never crosses a session boundary: when no session is     *)
(* open (End Session has run, or none was started) no pending capture      *)
(* remains, so a Save in the next session has nothing of the previous one  *)
(* to write.                                                               *)
C36_NoPendingCaptureWithoutSession ==
  (led # NoLedger /\ led.session = null) => led.pendingCapture = null


(* steps of the ledger, told by what they change; one invocation of       *)
(* handleSaveCapture at a time                                            *)
SessionStartsOrEnds ==
  led'.view # led.view /\ (led.view = "setup" \/ led'.view = "setup")
SaveEnds == Len(led.saves) = 1 /\ led'.saves = <<>>
SaveSucceeds == SaveEnds /\ led'.saved # led.saved
SaveFails == SaveEnds /\ led'.saved = led.saved
CaptureFails ==
  led.prompt /\ ~led'.prompt /\ led'.pendingCapture = null /\ led'.status.type = "error"

C37_CounterSteps ==
  (led # NoLedger /\ led' # NoLedger) =>
    /\ SessionStartsOrEnds => led'.stepCounter = 1
    /\ SaveSucceeds => led'.stepCounter = led.saves[1].step + 1
    /\ SaveFails => led'.stepCounter = led.saves[1].step
    /\ CaptureFails => led'.stepCounter = led.stepCounter
    /\ led'.stepCounter < led.stepCounter =>
         (SessionStartsOrEnds \/ led'.stepCounter = led.stepCounter - 1)

(* C37: the step counter is at least 1 in every state; it is 1 when a      *)
(* session starts or ends, the minus button does nothing at 1, a           *)
(* successful save adds exactly 1, a failed capture or a failed save       *)
(* leaves it as it was when Capture or Save was clicked.                   *)
C37_StepCounterAtLeastOne ==
  /\ [](led # NoLedger => (led.stepCounter >= 1 /\ (led.session = null => led.stepCounter = 1)))
  /\ [][C37_CounterSteps]_vars

(* a step of handleSaveEdit that went through its try block *)
EditStep == led # NoLedger /\ led.view = "edit" /\ led'.edits = led.edits + 1

(* the rows of the manifest that a step changes *)
ChangedRows == {j \in DOMAIN led.manifest : led'.manifest[j] # led.manifest[j]}

C38_NoMatch ==
  /\ led # NoLedger /\ led.edits >= 1
  /\ led.status.message = "Capture updated successfully."
  /\ \A j \in DOMAIN led.manifest : led.manifest[j].pdfFilename # led.lastCapture.pdfFilename

(* the broker took the download of this call of saveViaDownloads *)
DownloadStarted == call.fn = "saveViaDownloads" /\ ~call.lastError

(* the broker's state of the download of this call *)
DownloadState == call.state[call.downloadId]

(* the promise of waitForDownload settles at most once, with the state the *)
(* download has reached, only on an event of its own download, and the     *)
(* listener is gone once it has settled                                    *)
SettlesAtMostOnce ==
  /\ [](DownloadStarted => call.settles <= 1)
  /\ [](DownloadStarted =>
          /\ call.pc = "returned" => (DownloadState = "complete" /\ call.settles = 1)
          /\ call.pc = "thrown" => (DownloadState = "interrupted" /\ call.settles = 1)
          /\ call.settles = 1 => (call.listeners = {} /\ call.revoked))
  /\ [][(DownloadStarted /\ call'.settles # call.settles)
          => (call.queue # <<>> /\ Head(call.queue).id = call.downloadId
              /\ Head(call.queue).state = call.state[call.downloadId])]_vars

(* C39: saveViaDownloads settles exactly once for every download that was *)
(* started: it returns once the download is complete and throws once it   *)
(* is interrupted, in whatever order the change events and the            *)
(* registration of the listener come; events of other downloads do not    *)
(* settle it, and the listener is removed when it settles.                *)
C39_SettlesOnceWhateverTheOrder ==
  /\ SettlesAtMostOnce
  /\ (DownloadStarted /\ DownloadState = "complete") ~> (call.pc = "returned")
  /\ (DownloadStarted /\ DownloadState = "interrupted") ~> (call.pc = "thrown")

(* the same, but for the calls whose final change event came before the *)
(* listener was registered                                               *)
C39_SettlesUnlessEventCameFirst ==
  /\ SettlesAtMostOnce
  /\ (DownloadStarted /\ DownloadState = "complete") ~> (call.pc = "returned" \/ call.missed)
  /\ (DownloadStarted /\ DownloadState = "interrupted") ~> (call.pc = "thrown" \/ call.missed)

(* the listener has settled the call while an event of the other download *)
(* went by                                                                *)
C39_Settled ==
  /\ DownloadStarted /\ call.pc \in {"returned", "thrown"}
  /\ call.state[CHOOSE d \in DownloadIds : d # call.downloadId] # NoState
  /\ call.deltas >= 1

(* the final change event has gone by before the listener was registered *)
C39_EventCameFirst == DownloadStarted /\ call.missed /\ call.pc = "wait" /\ call.queue = <<>>

====
